---- MODULE Spec2Model ----
(***************************************************************************)
(* A model of the api-mutator proxy: the permutation engine                *)
(* (core/permutations.py), the parameter index (core/mixer.py: Parameter,  *)
(* ApiMixer) and the request pipeline with its abuse log (core/views.py,   *)
(* core/models.py).                                                        *)
(*                                                                         *)
(* Representation.                                                         *)
(*   - A path is the sequence path.split('/') of its parts, so             *)
(*     "/v1/tasks/{id}" is <<"", "v1", "tasks", "{id}">>.  Parts are       *)
(*     lower-case atoms; a placeholder is a whole part "{x}".              *)
(*   - A dict is a sequence of [k |-> key, v |-> value] entries in         *)
(*     insertion order with unique keys (Python dicts keep that order).    *)
(*   - None is the string "None".                                          *)
(*   - random.Random(seed) is a generator [seed, pos] reading the stream   *)
(*     its seed selects: the numbers tape[pos] + seed, for a tape that is  *)
(*     chosen in Init and never changes.                                   *)
(***************************************************************************)
EXTENDS Integers, Sequences, FiniteSets, Bags, TLC

VARIABLES
    tape,        \* the numbers behind the stream each seed selects (fixed)
    swagger,     \* the canonical Swagger document (settings.SWAGGER_FILE_PATH)
    global_rnd,  \* the process-wide generator of module `random`
    mixers,      \* SpecEngine: the ApiMixer objects under construction
    reversed,    \* SpecEngine: the last call of ApiMixer.reverse and its result
    now,         \* the clock, in hours
    failures,    \* the rows of AccessAttemptFailure: a bag of [user, datetime]
    cache,       \* the cache of get_mixer: user_pk -> ApiMixer
    handlers     \* the requests the proxy view is handling

engine_vars == <<mixers, reversed>>
proxy_vars == <<now, failures, cache, handlers>>

None == "None"

\* ------------------------------------------------------------------ dicts

RECURSIVE DictHas(_, _)
DictHas(d, k) ==
    IF d = <<>> THEN FALSE
    ELSE IF Head(d).k = k THEN TRUE ELSE DictHas(Tail(d), k)

RECURSIVE DictGet(_, _, _)
DictGet(d, k, default) ==
    IF d = <<>> THEN default
    ELSE IF Head(d).k = k THEN Head(d).v ELSE DictGet(Tail(d), k, default)

RECURSIVE DictSet(_, _, _)
DictSet(d, k, v) ==
    IF d = <<>> THEN <<[k |-> k, v |-> v]>>
    ELSE IF Head(d).k = k THEN <<[k |-> k, v |-> v]>> \o Tail(d)
    ELSE <<Head(d)>> \o DictSet(Tail(d), k, v)

DictValues(d) == {d[i].v : i \in 1..Len(d)}

\* ---------------------------------------------------------------- strings

\* str.lower() on the names the model uses (all other atoms are lower-case).
Lower(s) ==
    CASE s = "App-Token"  -> "app-token"
      [] s = "Auth-Token" -> "auth-token"
      [] s = "AppToken"   -> "apptoken"
      [] s = "AuthToken"  -> "authtoken"
      [] s = "PageLimit"  -> "pagelimit"
      [] s = "Apptoken"   -> "apptoken"
      [] s = "Authtoken"  -> "authtoken"
      [] s = "Pagelimit"  -> "pagelimit"
      [] s = "Host"       -> "host"
      [] s = "Id"         -> "id"
      [] s = "Foo"        -> "foo"
      [] OTHER            -> s

\* humps.pascalize on the parameter names of the model.
Pascalize(s) ==
    CASE s = "App-Token"  -> "AppToken"
      [] s = "Auth-Token" -> "AuthToken"
      [] s = "app_token"  -> "AppToken"
      [] s = "auth_token" -> "AuthToken"
      [] s = "page_limit" -> "PageLimit"
      [] s = "id"         -> "Id"
      [] OTHER            -> s

\* humps.decamelize(name.replace('-', '')) on the parameter names of the model.
Decamelize(s) ==
    CASE s = "App-Token"  -> "app_token"
      [] s = "Auth-Token" -> "auth_token"
      [] s = "AppToken"   -> "app_token"
      [] s = "AuthToken"  -> "auth_token"
      [] s = "PageLimit"  -> "page_limit"
      [] s = "Id"         -> "id"
      [] OTHER            -> s

\* b.startswith(a) on path parts: an atom is a prefix of itself, and the table
\* lists the atoms of the model that are proper prefixes of another.
IsStrPrefix(a, b) ==
    \/ a = b
    \/ a = ""
    \/ <<a, b>> \in {<<"task", "tasks">>, <<"invites", "invitesx">>}

\* re.match(r'v\d+', part)
IsVersion(part) == part \in {"v1", "v2", "v3"}

\* f'v{seed}'
VersionOf(seed) ==
    CASE seed = 1 -> "v1"
      [] seed = 2 -> "v2"
      [] OTHER    -> "v3"

\* part.startswith('{') and part.endswith('}')
IsPlaceholder(part) == part \in {"{id}", "{pid}"}

\* the x of a part "{x}"
PlaceholderName(part) ==
    CASE part = "{id}"  -> "id"
      [] part = "{pid}" -> "pid"
      [] OTHER          -> None

\* ------------------------------------------------- Parameter (mixer.py)

Parameter(path, method, in_, name) ==
    [path |-> path, method |-> method, in_ |-> in_, name |-> name]

\* '{' in path
HasBrace(path) == \E i \in 1..Len(path) : IsPlaceholder(path[i])

\* "/".join(P[j..k]) is not the empty string
NonEmptyJoin(P, j, k) == k > j \/ P[j] # ""

\* re_path.match: the pattern is the template T with every {x} replaced by
\* (?P<x>.+); it is matched from the start of P and need not reach its end.
\* ReMatchFrom(T, P, i, j): the parts T[i..] match at part j of P.
RECURSIVE ReMatchFrom(_, _, _, _)
ReMatchFrom(T, P, i, j) ==
    IF i > Len(T) THEN TRUE
    ELSE IF j > Len(P) THEN FALSE
    ELSE IF IsPlaceholder(T[i]) THEN
        IF i = Len(T) THEN NonEmptyJoin(P, j, Len(P))
        ELSE \E k \in j..Len(P) :
                NonEmptyJoin(P, j, k) /\ ReMatchFrom(T, P, i + 1, k + 1)
    ELSE IF i = Len(T) THEN IsStrPrefix(T[i], P[j])
    ELSE T[i] = P[j] /\ ReMatchFrom(T, P, i + 1, j + 1)

RePathMatch(T, P) == ReMatchFrom(T, P, 1, 1)

\* The number of groups of re_path.
GroupCount(T) == Cardinality({i \in 1..Len(T) : IsPlaceholder(T[i])})

\* next(iter(re_path.match(P).groupdict().values())): the text the first group
\* captures, as the parts it spans; .+ is greedy.  Defined when T matches P and
\* has a group.
FirstGroup(T, P) ==
    LET i0 == CHOOSE i \in 1..Len(T) :
                  IsPlaceholder(T[i]) /\ \A h \in 1..(i - 1) : ~IsPlaceholder(T[h])
        ends == IF i0 = Len(T) THEN {Len(P)}
                ELSE {k \in i0..Len(P) :
                         NonEmptyJoin(P, i0, k) /\ ReMatchFrom(T, P, i0 + 1, k + 1)}
        last == CHOOSE k \in ends : \A m \in ends : m <= k
    IN  SubSeq(P, i0, last)

\* One field of __eq__ other than path: None matches everything, otherwise the
\* comparison ignores case.
FieldEq(val1, val2) == val1 = None \/ val2 = None \/ Lower(val1) = Lower(val2)

PathFieldEq(val1, val2) ==
    \/ val1 = val2
    \/ HasBrace(val1) /\ RePathMatch(val1, val2)
    \/ HasBrace(val2) /\ RePathMatch(val2, val1)

\* Parameter.__eq__
ParameterEq(self, other) ==
    /\ PathFieldEq(self.path, other.path)
    /\ FieldEq(self.method, other.method)
    /\ FieldEq(self.in_, other.in_)
    /\ FieldEq(self.name, other.name)

\* ------------------------------------------- generators (module random)

TapeLen == 2
CellMax == 2

\* A generator that is the process-wide one, continuing where that one stands.
SharedGenerator(seed, g) == g

\* random.Random(seed): a generator of its own, at the start of the stream the
\* seed selects.  g is the process-wide generator, which it leaves alone.
Generator(seed, g) == [shared |-> FALSE, seed |-> seed, pos |-> 0]

\* The number the generator yields next, and the generator after the draw.
Cell(rnd) == (tape[rnd.pos] + rnd.seed) % (CellMax + 1)
Advance(rnd) == [rnd EXCEPT !.pos = (@ + 1) % TapeLen]

\* The process-wide generator, g before a permutation, after the permutation
\* ended with generator rnd.
GlobalAfter(rnd, g) == IF rnd.shared THEN rnd ELSE g

Remove(s, i) == SubSeq(s, 1, i - 1) \o SubSeq(s, i + 1, Len(s))

\* rnd.sample(population, k=len(population)): the permutation the number r selects.
RECURSIVE Sample(_, _)
Sample(population, r) ==
    IF population = <<>> THEN <<>>
    ELSE LET n == Len(population)
             i == (r % n) + 1
         IN  <<population[i]>> \o Sample(Remove(population, i), r \div n)

\* rnd.choice((True, False))
Choice(r) == (r % 2) = 0

\* ------------------------------------------------ synonyms (synonyms.py)

\* The entries of SYNONYMS for the path tokens of the model, in table order.
SYNONYMS ==
    << [k |-> "auth",    v |-> <<"oauth", "login", "signin">>],
       [k |-> "tasks",   v |-> <<"todos", "task">>],
       [k |-> "invites", v |-> <<"invitations">>] >>

\* ------------------------------------------ permute_paths (permutations.py)

\* synonyms = {key: rnd.sample(values + [key], ...) for key, values in SYNONYMS.items()}
RECURSIVE PermuteSynonyms(_, _, _)
PermuteSynonyms(table, rnd, acc) ==
    IF table = <<>> THEN [synonyms |-> acc, rnd |-> rnd]
    ELSE LET e == Head(table)
         IN  PermuteSynonyms(Tail(table), Advance(rnd),
                 DictSet(acc, e.k, Sample(e.v \o <<e.k>>, Cell(rnd))))

\* The first candidate, taken or not.
FirstCandidate(candidates, used) ==
    IF candidates = <<>> THEN None ELSE Head(candidates)

\* for synonym in synonyms_for_part: if synonym not in part_to_name.values(): ...
RECURSIVE FirstUnused(_, _)
FirstUnused(candidates, used) ==
    IF candidates = <<>> THEN None
    ELSE IF Head(candidates) \notin used THEN Head(candidates)
    ELSE FirstUnused(Tail(candidates), used)

\* permute_path: st = [parts, part_to_name, error] after the parts before i.
RECURSIVE PermutePath(_, _, _, _, _)
PermutePath(path, i, seed, synonyms, st) ==
    IF i > Len(path) \/ st.error # None THEN st
    ELSE LET part == path[i]
             known == DictGet(st.part_to_name, part, None)
             synonyms_for_part == DictGet(synonyms, part, <<part>>)
             synonym == FirstUnused(synonyms_for_part, DictValues(st.part_to_name))
         IN  IF part = ""
             THEN PermutePath(path, i + 1, seed, synonyms,
                      [st EXCEPT !.parts = Append(@, part)])
             ELSE IF IsVersion(part)
             THEN PermutePath(path, i + 1, seed, synonyms,
                      [st EXCEPT !.parts = Append(@, VersionOf(seed))])
             ELSE IF IsPlaceholder(part)
             THEN PermutePath(path, i + 1, seed, synonyms,
                      [st EXCEPT !.parts = Append(@, part)])
             ELSE IF known # None
             THEN PermutePath(path, i + 1, seed, synonyms,
                      [st EXCEPT !.parts = Append(@, known)])
             ELSE IF synonym # None
             THEN PermutePath(path, i + 1, seed, synonyms,
                      [st EXCEPT !.parts = Append(@, synonym),
                                 !.part_to_name = DictSet(@, part, synonym)])
             ELSE [st EXCEPT !.error = part]

\* swagger['paths'] = {permute_path(path): methods for path, methods in ...}:
\* st = [paths, images, part_to_name, error] after the entries before i, where
\* images lists what permute_path returned, call by call.
RECURSIVE PermuteAllPaths(_, _, _, _, _)
PermuteAllPaths(paths, i, seed, synonyms, st) ==
    IF i > Len(paths) \/ st.error # None THEN st
    ELSE LET one == PermutePath(paths[i].k, 1, seed, synonyms,
                        [parts |-> <<>>, part_to_name |-> st.part_to_name,
                         error |-> None])
         IN  PermuteAllPaths(paths, i + 1, seed, synonyms,
                 [paths |-> IF one.error = None
                            THEN DictSet(st.paths, one.parts, paths[i].v)
                            ELSE st.paths,
                  images |-> IF one.error = None
                             THEN Append(st.images, one.parts)
                             ELSE st.images,
                  part_to_name |-> one.part_to_name,
                  error |-> one.error])

\* permute_paths(swagger, seed, meta) with generator rnd: the document after it,
\* what permute_path returned for each path, the part_to_name mapping, the part
\* that ran out of synonyms (or None) and the generator after its draws.
PermutePathsWith(doc, seed, rnd) ==
    LET syn == PermuteSynonyms(SYNONYMS, rnd, <<>>)
        st == PermuteAllPaths(doc.paths, 1, seed, syn.synonyms,
                  [paths |-> <<>>, images |-> <<>>, part_to_name |-> <<>>,
                   error |-> None])
    IN  [doc |-> [doc EXCEPT !.paths = st.paths],
         images |-> st.images,
         part_to_name |-> st.part_to_name,
         error |-> st.error,
         rnd |-> syn.rnd]

permute_paths(doc, seed, g) == PermutePathsWith(doc, seed, Generator(seed, g))

\* -------------------------------------- permute_locations (permutations.py)

\* {'query': 'header', 'header': 'query'}.get(in_, in_)
SwapLocation(in_) ==
    CASE in_ = "query"  -> "header"
      [] in_ = "header" -> "query"
      [] OTHER          -> in_

\* The name a parameter gets with its location.
RenameFor(in_, name) ==
    CASE in_ = "header" -> Pascalize(name)
      [] in_ = "query"  -> Decamelize(name)
      [] OTHER          -> name

\* A permutation without memory of the locations it has chosen.
ForgottenLocation(locs, name) == None

\* in_ = params_locations.get(parameter['name'])
KeptLocation(locs, name) == DictGet(locs, name, None)

\* for parameter in description.get('parameters', []): st = [out, locs, rnd],
\* where locs is params_locations.
RECURSIVE LocateParameters(_, _, _)
LocateParameters(parameters, i, st) ==
    IF i > Len(parameters) THEN st
    ELSE LET parameter == parameters[i]
             kept == KeptLocation(st.locs, parameter.name)
             in_ == IF kept # None THEN kept
                    ELSE IF Choice(Cell(st.rnd)) THEN SwapLocation(parameter.in_)
                    ELSE parameter.in_
         IN  LocateParameters(parameters, i + 1,
                 [out |-> Append(st.out,
                              [in_ |-> in_, name |-> RenameFor(in_, parameter.name)]),
                  locs |-> IF kept # None THEN st.locs
                           ELSE DictSet(st.locs, parameter.name, in_),
                  rnd |-> IF kept # None THEN st.rnd ELSE Advance(st.rnd)])

\* for method, description in methods.items(): st = [out, locs, rnd]
RECURSIVE LocateMethods(_, _, _)
LocateMethods(methods, i, st) ==
    IF i > Len(methods) THEN st
    ELSE LET description == methods[i].v
             ps == LocateParameters(
                       IF description.has_parameters THEN description.parameters
                       ELSE <<>>,
                       1, [out |-> <<>>, locs |-> st.locs, rnd |-> st.rnd])
         IN  IF methods[i].k # "get"
             THEN LocateMethods(methods, i + 1,
                      [st EXCEPT !.out = Append(@, methods[i])])
             ELSE LocateMethods(methods, i + 1,
                      [out |-> Append(st.out,
                                   [k |-> "get",
                                    v |-> [description EXCEPT
                                             !.parameters =
                                                 IF description.has_parameters
                                                 THEN ps.out ELSE @]]),
                       locs |-> ps.locs,
                       rnd |-> ps.rnd])

\* for _, methods in swagger['paths'].items(): st = [out, locs, rnd]
RECURSIVE LocatePaths(_, _, _)
LocatePaths(paths, i, st) ==
    IF i > Len(paths) THEN st
    ELSE LET ms == LocateMethods(paths[i].v, 1,
                       [out |-> <<>>, locs |-> st.locs, rnd |-> st.rnd])
         IN  LocatePaths(paths, i + 1,
                 [out |-> Append(st.out, [k |-> paths[i].k, v |-> ms.out]),
                  locs |-> ms.locs,
                  rnd |-> ms.rnd])

PermuteLocationsWith(doc, seed, rnd) ==
    LET st == LocatePaths(doc.paths, 1, [out |-> <<>>, locs |-> <<>>, rnd |-> rnd])
    IN  [doc |-> [doc EXCEPT !.paths = st.out],
         params_locations |-> st.locs,
         rnd |-> st.rnd]

permute_locations(doc, seed, g) ==
    PermuteLocationsWith(doc, seed, Generator(seed, g))

\* ----------------------------------------- permute_result (permutations.py)

\* A schema is [name, wrapped]: the definition `name` of the document, inside
\* `wrapped` layers {'type': 'object', 'properties': {'result': ...}}.
permute_result(doc, seed) ==
    [doc EXCEPT !.definitions =
        [i \in 1..Len(@) |->
            [k |-> @[i].k, v |-> [@[i].v EXCEPT !.wrapped = @ + 1]]]]

\* ------------------------------------------------------ ApiMixer (mixer.py)

RECURSIVE Flatten(_)
Flatten(ss) == IF ss = <<>> THEN <<>> ELSE Head(ss) \o Flatten(Tail(ss))

\* ApiMixer.as_parameters
OperationParameters(path, method, description) ==
    IF ~description.has_parameters
    THEN <<Parameter(path, method, None, None)>>
    ELSE [i \in 1..Len(description.parameters) |->
             Parameter(path, method, description.parameters[i].in_,
                       description.parameters[i].name)]

as_parameters(doc) ==
    Flatten([p \in 1..Len(doc.paths) |->
        Flatten([m \in 1..Len(doc.paths[p].v) |->
            OperationParameters(doc.paths[p].k, doc.paths[p].v[m].k,
                                doc.paths[p].v[m].v)])])

\* list.index(value): the first index whose element equals value, 0 when
\* index raises ValueError.
ListIndex(list, value) ==
    LET hits == {i \in 1..Len(list) : ParameterEq(list[i], value)}
    IN  IF hits = {} THEN 0 ELSE CHOOSE i \in hits : \A j \in hits : i <= j

\* ApiMixer.reverse: [idx, permuted, original]; idx = 0 stands for ValueError.
reverse(mixer, permuted_parameter) ==
    LET idx == ListIndex(mixer.permuted_parameters, permuted_parameter)
    IN  IF idx = 0 THEN [idx |-> 0, permuted |-> None, original |-> None]
        ELSE [idx |-> idx,
              permuted |-> mixer.permuted_parameters[idx],
              original |-> mixer.original_parameters[idx]]

\* ------------------------------------------------------ Swagger documents

Op(parameters) == [has_parameters |-> TRUE, parameters |-> parameters]
OpWithoutParameters == [has_parameters |-> FALSE, parameters |-> <<>>]
In(in_, name) == [in_ |-> in_, name |-> name]
Schema(name) == [name |-> name, wrapped |-> 0]
Entry(k, v) == [k |-> k, v |-> v]

Credentials == <<In("header", "App-Token"), In("header", "Auth-Token")>>

\* A document of the shape of the Hubstaff v1 API: a collection, its items, a
\* collection nested in an item, and the auth endpoint.
HubstaffDoc ==
    [host |-> "api.hubstaff.com",
     paths |-> <<
        Entry(<<"", "v1", "auth">>,
              <<Entry("post", Op(<<In("header", "App-Token"),
                                   In("formData", "email"),
                                   In("formData", "password")>>))>>),
        Entry(<<"", "v1", "tasks">>,
              <<Entry("get", Op(Credentials \o <<In("query", "page_limit")>>)),
                Entry("post", Op(Credentials \o <<In("body", "name")>>))>>),
        Entry(<<"", "v1", "tasks", "{id}">>,
              <<Entry("get", Op(Credentials \o <<In("path", "id")>>))>>),
        Entry(<<"", "v1", "tasks", "{id}", "invites">>,
              <<Entry("get", Op(Credentials \o <<In("path", "id")>>))>>) >>,
     definitions |-> <<Entry("user", Schema("user")), Entry("task", Schema("task"))>>]

\* Flat collections only, one of them with two operations.
FlatDoc ==
    [host |-> "api.hubstaff.com",
     paths |-> <<
        Entry(<<"", "v1", "tasks">>,
              <<Entry("get", Op(Credentials \o <<In("query", "page_limit")>>)),
                Entry("post", Op(Credentials \o <<In("body", "name")>>))>>),
        Entry(<<"", "v1", "invites">>,
              <<Entry("get", Op(<<In("query", "page_limit"),
                                  In("header", "App-Token")>>))>>),
        Entry(<<"", "v1", "clients">>,
              <<Entry("get", OpWithoutParameters)>>) >>,
     definitions |-> <<Entry("task", Schema("task"))>>]

\* The same collection under two versions of the API.
VersionsDoc ==
    [host |-> "api.hubstaff.com",
     paths |-> <<
        Entry(<<"", "v1", "tasks">>,
              <<Entry("get", Op(<<In("query", "page_limit")>>))>>),
        Entry(<<"", "v2", "tasks">>,
              <<Entry("get", Op(Credentials \o <<In("query", "page_limit")>>))>>) >>,
     definitions |-> <<Entry("task", Schema("task"))>>]

\* Path tokens that are synonyms of one another.
TokensDoc ==
    [host |-> "api.hubstaff.com",
     paths |-> <<
        Entry(<<"", "v1", "task">>,
              <<Entry("get", Op(<<In("header", "App-Token")>>))>>),
        Entry(<<"", "v1", "tasks", "todos">>,
              <<Entry("get", Op(<<In("query", "page_limit")>>))>>),
        Entry(<<"", "v1", "todos", "tasks">>,
              <<Entry("get", Op(<<>>))>>) >>,
     definitions |-> <<Entry("task", Schema("task"))>>]

\* One operation whose path has two placeholders, and nothing to shadow it.
PlaceholdersDoc ==
    [host |-> "api.hubstaff.com",
     paths |-> <<
        Entry(<<"", "v1", "tasks", "{id}", "invites", "{pid}">>,
              <<Entry("get", Op(Credentials \o <<In("path", "id"),
                                                 In("path", "pid")>>))>>) >>,
     definitions |-> <<Entry("task", Schema("task"))>>]

\* A collection nested in an item, with a parameter the item does not have.
NestedDoc ==
    [host |-> "api.hubstaff.com",
     paths |-> <<
        Entry(<<"", "v1", "tasks", "{id}">>,
              <<Entry("get", Op(Credentials \o <<In("path", "id")>>))>>),
        Entry(<<"", "v1", "tasks", "{id}", "invites">>,
              <<Entry("get", Op(Credentials \o <<In("path", "id"),
                                                 In("query", "page_limit")>>))>>) >>,
     definitions |-> <<Entry("task", Schema("task"))>>]

\* A collection filtered by `id` in the query string, and its items, whose
\* `id` is the placeholder of the path.
FilterByIdDoc ==
    [host |-> "api.hubstaff.com",
     paths |-> <<
        Entry(<<"", "v1", "tasks">>,
              <<Entry("get", Op(<<In("header", "App-Token"), In("query", "id")>>))>>),
        Entry(<<"", "v1", "tasks", "{id}">>,
              <<Entry("get", Op(<<In("header", "App-Token"), In("path", "id")>>))>>) >>,
     definitions |-> <<Entry("task", Schema("task"))>>]

EngineDocs == {HubstaffDoc, FlatDoc, VersionsDoc, TokensDoc, FilterByIdDoc}

\* The documents the proxy is run with.
ProxyDocs == {HubstaffDoc, PlaceholdersDoc, NestedDoc}

Seeds == {1, 2}
Builders == {"b1", "b2"}

Tapes == [0..(TapeLen - 1) -> 0..CellMax]

\* ------------------------------------- ApiMixer.__post_init__, step by step

EmptyDoc == [host |-> None, paths |-> <<>>, definitions |-> <<>>]

NoMixer ==
    [pc |-> "idle", seed |-> 0, permuted_swagger |-> EmptyDoc,
     images |-> <<>>, part_to_name |-> <<>>, error |-> None,
     original_parameters |-> <<>>, permuted_parameters |-> <<>>]

NoCall == [b |-> None, i |-> 0, idx |-> 0]

\* ApiMixer(swagger, seed): self.permuted_swagger = deepcopy(self.swagger)
Construct(b, seed) ==
    /\ mixers[b].pc = "idle"
    /\ mixers' = [mixers EXCEPT ![b] =
                     [NoMixer EXCEPT !.pc = "copied", !.seed = seed,
                                     !.permuted_swagger = swagger]]
    /\ reversed' = NoCall
    /\ UNCHANGED <<tape, swagger, global_rnd, proxy_vars>>

\* permutations[0]: permute_paths; its ValueError ends the construction.
StepPermutePaths(b) ==
    /\ mixers[b].pc = "copied"
    /\ LET r == permute_paths(mixers[b].permuted_swagger, mixers[b].seed, global_rnd)
       IN  /\ mixers' = [mixers EXCEPT ![b] =
                  IF r.error # None
                  THEN [@ EXCEPT !.pc = "failed", !.error = r.error,
                                 !.images = r.images,
                                 !.part_to_name = r.part_to_name]
                  ELSE [@ EXCEPT !.pc = "paths", !.permuted_swagger = r.doc,
                                 !.images = r.images,
                                 !.part_to_name = r.part_to_name]]
           /\ global_rnd' = GlobalAfter(r.rnd, global_rnd)
    /\ reversed' = NoCall
    /\ UNCHANGED <<tape, swagger, proxy_vars>>

\* permutations[1]: permute_locations
StepPermuteLocations(b) ==
    /\ mixers[b].pc = "paths"
    /\ LET r == permute_locations(mixers[b].permuted_swagger, mixers[b].seed,
                                  global_rnd)
       IN  /\ mixers' = [mixers EXCEPT ![b] =
                  [@ EXCEPT !.pc = "locations", !.permuted_swagger = r.doc]]
           /\ global_rnd' = GlobalAfter(r.rnd, global_rnd)
    /\ reversed' = NoCall
    /\ UNCHANGED <<tape, swagger, proxy_vars>>

\* permutations[2]: permute_result
StepPermuteResult(b) ==
    /\ mixers[b].pc = "locations"
    /\ mixers' = [mixers EXCEPT ![b] =
           [@ EXCEPT !.pc = "result",
                     !.permuted_swagger = permute_result(@, mixers[b].seed)]]
    /\ reversed' = NoCall
    /\ UNCHANGED <<tape, swagger, global_rnd, proxy_vars>>

\* self.original_parameters = ...; self.permuted_parameters = ...
StepAsParameters(b) ==
    /\ mixers[b].pc = "result"
    /\ mixers' = [mixers EXCEPT ![b] =
           [@ EXCEPT !.pc = "built",
                     !.original_parameters = as_parameters(swagger),
                     !.permuted_parameters =
                         as_parameters(mixers[b].permuted_swagger)]]
    /\ reversed' = NoCall
    /\ UNCHANGED <<tape, swagger, global_rnd, proxy_vars>>

\* mixer.reverse(mixer.permuted_parameters[i])
CallReverse(b, i) ==
    /\ mixers[b].pc = "built"
    /\ reversed = NoCall
    /\ i \in 1..Len(mixers[b].permuted_parameters)
    /\ reversed' =
           [b |-> b, i |-> i,
            idx |-> reverse(mixers[b], mixers[b].permuted_parameters[i]).idx]
    /\ UNCHANGED <<tape, swagger, global_rnd, mixers, proxy_vars>>

\* The mixer is dropped (its construction failed, or nothing refers to it).
Drop(b) ==
    /\ mixers[b].pc \in {"built", "failed"}
    /\ mixers' = [mixers EXCEPT ![b] = NoMixer]
    /\ reversed' = NoCall
    /\ UNCHANGED <<tape, swagger, global_rnd, proxy_vars>>

\* ---------------------------------------------- ApiMixer, in one piece

\* ApiMixer(swagger, seed, meta, ...) as get_mixer constructs it, with the
\* process-wide generator at g: the mixer (error names the part permute_paths
\* ran out of synonyms for) and the process-wide generator afterwards.
ApiMixer(doc, seed, meta, g) ==
    LET p1 == permute_paths(doc, seed, g)
        g1 == GlobalAfter(p1.rnd, g)
        p2 == permute_locations(p1.doc, seed, g1)
        p3 == permute_result(p2.doc, seed)
    IN  IF p1.error # None
        THEN [mixer |-> [error |-> p1.error, swagger |-> doc, seed |-> seed,
                         meta |-> meta, permuted_swagger |-> EmptyDoc,
                         original_parameters |-> <<>>,
                         permuted_parameters |-> <<>>],
              global_rnd |-> g1]
        ELSE [mixer |-> [error |-> None, swagger |-> doc, seed |-> seed,
                         meta |-> meta, permuted_swagger |-> p3,
                         original_parameters |-> as_parameters(doc),
                         permuted_parameters |-> as_parameters(p3)],
              global_rnd |-> GlobalAfter(p2.rnd, g1)]

\* ------------------------------------------------------- users (models.py)

UserPks == {1, 2}

\* User.email, the password set for the user, ApiCredentials.app_token and
\* ApiCredentials.auth_token of the users of the model.
Email(u) == IF u = 1 THEN "a@b" ELSE "c@d"
Password(u) == IF u = 1 THEN "pw1" ELSE "pw2"
AppToken(u) == IF u = 1 THEN "app1" ELSE "app2"
AuthToken(u) == IF u = 1 THEN "auth1" ELSE "auth2"

\* A check that takes every password.
CheckAnyPassword(u, raw) == TRUE

\* user.check_password(raw)
CheckPassword(u, raw) == raw = Password(u)

\* hubstaff.app_token and hubstaff.auth_token, the credentials of the process.
HubstaffAppToken == "hubstaff-app"
HubstaffAuthToken == "hubstaff-auth"

\* ------------------------------------------------------------ JSON values

\* A JSON value is [t, v]: its type and, in a sequence, what it holds.
JStr(s) == [t |-> "str", v |-> <<s>>]
JNull == [t |-> "null", v |-> <<>>]
JList(items) == [t |-> "list", v |-> items]
JDict(entries) == [t |-> "dict", v |-> entries]
\* A body that is not JSON.
NotJson == [t |-> "text", v |-> <<>>]

\* --------------------------------------------------- upstream (hubstaff.py)

\* What upstream lists under GET /users: one user a page.
UpstreamUsers ==
    << [email |-> "c@d", id |-> "20", organizations |-> {"org2"},
        projects_names |-> {"p2"}, projects_ids |-> {"200"}],
       [email |-> "a@b", id |-> "10", organizations |-> {"org1"},
        projects_names |-> {"p1"}, projects_ids |-> {"100"}] >>

\* hubstaff.get('/users', params={..., 'offset': offset})['users']
UsersPage(offset) ==
    IF offset < Len(UpstreamUsers) THEN <<UpstreamUsers[offset + 1]>> ELSE <<>>

\* The paging loop of get_mixer: [found, user_data, calls].
RECURSIVE FindUserData(_, _, _)
FindUserData(email, offset, calls) ==
    LET users == UsersPage(offset)
        hits == {i \in 1..Len(users) : users[i].email = email}
    IN  IF hits # {}
        THEN [found |-> TRUE,
              user_data |-> users[CHOOSE i \in hits : \A j \in hits : i <= j],
              calls |-> calls + 1]
        ELSE IF users = <<>>
        THEN [found |-> FALSE, user_data |-> UpstreamUsers[1], calls |-> calls + 1]
        ELSE FindUserData(email, offset + Len(users), calls + 1)

\* --------------------------------- result processors (permutations.py)

\* item[key] of the items of a list; KeyError when an item lacks the key.
Lacks(items, key) == \E i \in 1..Len(items) : ~DictHas(items[i].v, key)
Field(item, key) == DictGet(item.v, key, JNull)

\* The filter of one non-empty list under its key: [error, items].
FilterList(key, content, meta) ==
    LET first == content[1].v
        Keep(Test(_)) == SelectSeq(content, Test)
        ByEmail(item) == Field(item, "email") = JStr(Email(meta.user))
        ByUserEmail(item) ==
            Field(Field(item, "user"), "email") = JStr(Email(meta.user))
        ByOrganization(item) ==
            \E n \in meta.user_data.organizations : Field(item, "name") = JStr(n)
        ByProject(item) ==
            \E n \in meta.user_data.projects_names : Field(item, "name") = JStr(n)
        ByUserId(item) == Field(item, "user_id") = JStr(meta.user_data.id)
        ByProjectId(item) ==
            \E n \in meta.user_data.projects_ids : Field(item, "project_id") = JStr(n)
        Rule(key_, Test(_)) ==
            IF Lacks(content, key_) THEN [error |-> "KeyError", items |-> <<>>]
            ELSE [error |-> None, items |-> Keep(Test)]
    IN  IF DictHas(first, "email") THEN Rule("email", ByEmail)
        ELSE IF DictHas(first, "user") /\ DictHas(Field(content[1], "user").v, "email")
        THEN IF Lacks(content, "user") THEN [error |-> "KeyError", items |-> <<>>]
             ELSE IF \E i \in 1..Len(content) :
                         ~DictHas(Field(content[i], "user").v, "email")
             THEN [error |-> "KeyError", items |-> <<>>]
             ELSE [error |-> None, items |-> Keep(ByUserEmail)]
        ELSE IF key = "organizations" THEN Rule("name", ByOrganization)
        ELSE IF key = "projects" THEN Rule("name", ByProject)
        ELSE IF DictHas(first, "user_id") THEN Rule("user_id", ByUserId)
        ELSE IF DictHas(first, "project_id") THEN Rule("project_id", ByProjectId)
        ELSE [error |-> None, items |-> content]

\* for key, content in data.items(): st = [error, result]
RECURSIVE FilterEntries(_, _, _, _)
FilterEntries(entries, i, meta, st) ==
    IF i > Len(entries) \/ st.error # None THEN st
    ELSE LET key == entries[i].k
             content == entries[i].v
         IN  IF content.t # "list" \/ content.v = <<>>
             THEN FilterEntries(entries, i + 1, meta,
                      [st EXCEPT !.result = DictSet(@, key, content)])
             ELSE LET f == FilterList(key, content.v, meta)
                  IN  FilterEntries(entries, i + 1, meta,
                          IF f.error # None THEN [st EXCEPT !.error = f.error]
                          ELSE [st EXCEPT !.result = DictSet(@, key, JList(f.items))])

\* A processor that lets everything through.
unfiltered_result_processor(data, meta) == [error |-> None, data |-> data]

\* personal_filter_result_processor: [error, data]
personal_filter_result_processor(data, meta) ==
    IF data.t # "dict" THEN [error |-> "AssertionError", data |-> JNull]
    ELSE LET st == FilterEntries(data.v, 1, meta, [error |-> None, result |-> <<>>])
         IN  [error |-> st.error, data |-> JDict(st.result)]

\* permute_result_processor
permute_result_processor(result) == JDict(<<Entry("result", result)>>)

\* An exception that reaches Django: a plain 500.
UnwrappedResponse(message) == [status |-> 500, data |-> JStr(message)]

\* The response of jsonify_exceptions to an exception.
ErrorResponse(message) ==
    [status |-> 400,
     data |-> permute_result_processor(
                  JDict(<<Entry("error", JStr(message)),
                          Entry("help", JStr("Please contact support"))>>))]

\* for processor in mixer.result_processors: ...; JsonResponse(status, result)
JsonResponse(status_code, result, meta) ==
    LET filtered == personal_filter_result_processor(result, meta)
    IN  IF filtered.error # None THEN ErrorResponse(filtered.error)
        ELSE [status |-> status_code, data |-> permute_result_processor(filtered.data)]

\* ------------------------------------------- requests (views.py, Django)

\* The name request.headers reports for a header: Django title-cases it.
HeaderName(name) ==
    CASE name = "AppToken"  -> "Apptoken"
      [] name = "AuthToken" -> "Authtoken"
      [] name = "PageLimit" -> "Pagelimit"
      [] OTHER              -> name

\* _request_to_params: the dict {Parameter: value} of what the request holds.
\* request.method is kept in lower case throughout.
LocatedEntries(request, in_, items) ==
    [i \in 1..Len(items) |->
        Entry(Parameter(request.path, request.method, in_,
                        IF in_ = "header" THEN HeaderName(items[i].k) ELSE items[i].k),
              items[i].v)]

_request_to_params(request) ==
    <<Entry(Parameter(request.path, request.method, "path", None), None)>>
        \o LocatedEntries(request, "header", request.headers)
        \o LocatedEntries(request, "formData", request.POST)
        \o LocatedEntries(request, "query", request.GET)

\* Every unexpected parameter is left out, whatever its location.
IgnoredAnywhere(permuted_parameter) == TRUE

\* if permuted_parameter.in_ in {'path', 'header'}: continue
Ignored(permuted_parameter) == permuted_parameter.in_ \in {"path", "header"}

\* The loop of proxy over permuted_parameters: st = [parameters, error] after
\* the entries before i.
RECURSIVE RestoreParameters(_, _, _, _)
RestoreParameters(mixer, permuted_parameters, i, st) ==
    IF i > Len(permuted_parameters) \/ st.error # None THEN st
    ELSE LET permuted_parameter == permuted_parameters[i].k
             value == permuted_parameters[i].v
             r == reverse(mixer, permuted_parameter)
             T == r.permuted.path
         IN  IF r.idx = 0
             THEN IF Ignored(permuted_parameter)
                  THEN RestoreParameters(mixer, permuted_parameters, i + 1, st)
                  ELSE [st EXCEPT !.error = "Unexpected parameter"]
             ELSE IF r.original.in_ # "path"
             THEN RestoreParameters(mixer, permuted_parameters, i + 1,
                      [st EXCEPT !.parameters = DictSet(@, r.original, value)])
             ELSE IF ~RePathMatch(T, permuted_parameter.path)
             THEN [st EXCEPT !.error = "AttributeError"]
             ELSE IF GroupCount(T) > 1
             THEN [st EXCEPT !.error = "Multiple path parameters not supported"]
             ELSE IF GroupCount(T) = 0
             THEN [st EXCEPT !.error = "StopIteration"]
             ELSE RestoreParameters(mixer, permuted_parameters, i + 1,
                      [st EXCEPT !.parameters =
                          DictSet(@, r.original,
                                  FirstGroup(T, permuted_parameter.path))])

\* {param.name: value for param, value in parameters.items() if param.in_ == in_}
RECURSIVE ByLocation(_, _)
ByLocation(parameters, in_) ==
    IF parameters = <<>> THEN <<>>
    ELSE LET e == parameters[Len(parameters)]
             before == ByLocation(SubSeq(parameters, 1, Len(parameters) - 1), in_)
         IN  IF e.k.in_ = in_ THEN DictSet(before, e.k.name, e.v) ELSE before

\* path.format(**kwargs) on the parts of a path: [error, path]
RECURSIVE FormatPath(_, _)
FormatPath(path, kwargs) ==
    IF path = <<>> THEN [error |-> None, path |-> <<>>]
    ELSE LET rest == FormatPath(Tail(path), kwargs)
             part == Head(path)
         IN  IF ~IsPlaceholder(part)
             THEN [rest EXCEPT !.path = <<part>> \o @]
             ELSE IF ~DictHas(kwargs, PlaceholderName(part))
             THEN [error |-> "KeyError", path |-> <<>>]
             ELSE [rest EXCEPT !.path = DictGet(kwargs, PlaceholderName(part), <<>>) \o @]

NoUrl == [host |-> None, path |-> <<>>]

NoRequest ==
    [method |-> None, url |-> NoUrl, headers |-> <<>>, json |-> <<>>,
     params |-> <<>>, data |-> <<>>]

\* _params_to_request(host, parameters): [error, request]; the url is kept as
\* host and path, the scheme being https.
_params_to_request(host, parameters) ==
    LET first_param == parameters[1].k
        path == FormatPath(first_param.path, ByLocation(parameters, "path"))
    IN  IF parameters = <<>>
        THEN [error |-> "No payload provided", request |-> NoRequest]
        ELSE IF Cardinality({<<parameters[i].k.path, parameters[i].k.method>> :
                                 i \in 1..Len(parameters)}) # 1
        THEN [error |-> "Inconsistent parameters", request |-> NoRequest]
        ELSE IF path.error # None
        THEN [error |-> path.error, request |-> NoRequest]
        ELSE [error |-> None,
              request |-> [method |-> first_param.method,
                           url |-> [host |-> host, path |-> path.path],
                           headers |-> ByLocation(parameters, "header"),
                           json |-> ByLocation(parameters, "body"),
                           params |-> ByLocation(parameters, "query"),
                           data |-> ByLocation(parameters, "formData")]]

\* ---------------------------------- permute_credentials (permutations.py)

\* A request processor that only requires the tokens to be present.
permute_credentials_present(request, meta) ==
    IF ~DictHas(request.headers, "App-Token")
    THEN [error |-> "Missing app token", request |-> request]
    ELSE IF ~DictHas(request.headers, "Auth-Token")
    THEN [error |-> "Missing auth token", request |-> request]
    ELSE [error |-> None,
          request |-> [request EXCEPT !.headers =
                          DictSet(DictSet(@, "App-Token", HubstaffAppToken),
                                  "Auth-Token", HubstaffAuthToken)]]

\* permute_credentials(request, meta): [error, request]
permute_credentials(request, meta) ==
    LET app_token == DictGet(request.headers, "App-Token", None)
        auth_token == DictGet(request.headers, "Auth-Token", None)
    IN  IF app_token \in {None, ""}
        THEN [error |-> "Missing app token", request |-> request]
        ELSE IF app_token # AppToken(meta.user)
        THEN [error |-> "Wrong app token", request |-> request]
        ELSE IF auth_token \in {None, ""}
        THEN [error |-> "Missing auth token", request |-> request]
        ELSE IF auth_token # AuthToken(meta.user)
        THEN [error |-> "Wrong auth token", request |-> request]
        ELSE [error |-> None,
              request |-> [request EXCEPT !.headers =
                              DictSet(DictSet(@, "App-Token", HubstaffAppToken),
                                      "Auth-Token", HubstaffAuthToken)]]

\* ----------------------------------------------------- proxy, lines 195-257

\* 'https://api.hubstaff.com/v1/auth'
AuthUrl == [host |-> "api.hubstaff.com", path |-> <<"", "v1", "auth">>]

\* The answer of the proxy itself to a request for AuthUrl: [error, result].
LocalAuth(request, user) ==
    IF Email(user) # DictGet(request.data, "email", "")
    THEN [error |-> "Wrong email provided", result |-> JNull]
    ELSE IF ~CheckPassword(user, DictGet(request.data, "password", None))
    THEN [error |-> "Password mismatch", result |-> JNull]
    ELSE IF AppToken(user) # DictGet(request.headers, "App-Token", "")
    THEN [error |-> "App-Token mismatch", result |-> JNull]
    ELSE [error |-> None,
          result |-> JDict(<<Entry("id", JNull), Entry("name", JNull),
                             Entry("last_activity", JNull),
                             Entry("auth_token", JStr(AuthToken(user)))>>)]

\* The proxy raised `message` after it had built `url` (NoUrl before that).
Fail(message, url) ==
    [kind |-> "error", error |-> message, url |-> url,
     request |-> NoRequest, result |-> JNull]

\* proxy, lines 235-250: the answer of the proxy itself.
AfterAuth(auth) ==
    IF auth.error # None THEN Fail(auth.error, AuthUrl)
    ELSE [kind |-> "local", error |-> None, url |-> AuthUrl,
          request |-> NoRequest, result |-> auth.result]

\* proxy, lines 253-257: the request processors have run; session.send.
AfterProcessors(url, processed) ==
    IF processed.error # None THEN Fail(processed.error, url)
    ELSE [kind |-> "send", error |-> None, url |-> url,
          request |-> processed.request, result |-> JNull]

\* proxy, lines 229-257, with what _params_to_request returned.
AfterBuild(mixer, user, built) ==
    IF built.error # None THEN Fail(built.error, NoUrl)
    ELSE IF built.request.url = AuthUrl
    THEN AfterAuth(LocalAuth(built.request, user))
    ELSE AfterProcessors(built.request.url,
                         permute_credentials(built.request, mixer.meta))

\* proxy, lines 201-257, with what the loop over permuted_parameters left.
AfterRestore(mixer, user, restored) ==
    IF restored.error # None THEN Fail(restored.error, NoUrl)
    ELSE AfterBuild(mixer, user,
                    _params_to_request(mixer.swagger.host, restored.parameters))

\* From permuted_parameters to the point where the proxy either fails, answers
\* by itself or sends: [kind, error, url, request, result], where url is the
\* address _params_to_request built (NoUrl before that point).
Outcome(mixer, permuted_parameters, user) ==
    AfterRestore(mixer, user,
                 RestoreParameters(mixer, permuted_parameters, 1,
                                   [parameters |-> <<>>, error |-> None]))

\* ----------------------------------------------------------------- clients

\* The value a placeholder of a path is bound to.
Bind(path) ==
    [i \in 1..Len(path) |->
        CASE path[i] = "{id}"  -> "7"
          [] path[i] = "{pid}" -> "8"
          [] OTHER             -> path[i]]

OtherUser(user) == CHOOSE v \in UserPks : v # user

\* What a client of `user` sends for the parameter with the canonical name
\* `name`; a tampering client sends something else for one of them.
SuppliedValue(user, name, tamper) ==
    CASE name = "App-Token" ->
             IF tamper = "wrong_app_token" THEN AppToken(OtherUser(user))
             ELSE AppToken(user)
      [] name = "Auth-Token" ->
             IF tamper = "wrong_auth_token" THEN AuthToken(OtherUser(user))
             ELSE AuthToken(user)
      [] name = "email" ->
             IF tamper = "wrong_email" THEN Email(OtherUser(user)) ELSE Email(user)
      [] name = "password" ->
             IF tamper = "wrong_password" THEN "guess" ELSE Password(user)
      [] name = "page_limit" -> "50"
      [] OTHER -> "n1"

Omitted(name, tamper) ==
    \/ name = "App-Token" /\ tamper = "no_app_token"
    \/ name = "Auth-Token" /\ tamper = "no_auth_token"

\* The entries a client sends in location in_ for the parameters from j on of
\* an operation: permuted names, the values of the canonical parameters.
RECURSIVE Sent(_, _, _, _, _, _)
Sent(permuted, canonical, j, in_, user, tamper) ==
    IF j > Len(permuted) THEN <<>>
    ELSE LET rest == Sent(permuted, canonical, j + 1, in_, user, tamper)
         IN  IF permuted[j].in_ = in_ /\ ~Omitted(canonical[j].name, tamper)
             THEN <<Entry(permuted[j].name,
                          SuppliedValue(user, canonical[j].name, tamper))>> \o rest
             ELSE rest

Names(description) ==
    {description.parameters[j].name : j \in 1..Len(description.parameters)}

\* The ways of tampering that change the request for an operation.
Tampers(description) ==
    {"none", "unknown_query", "unknown_form"}
        \cup (IF "App-Token" \in Names(description)
              THEN {"wrong_app_token", "no_app_token"} ELSE {})
        \cup (IF "Auth-Token" \in Names(description)
              THEN {"wrong_auth_token", "no_auth_token"} ELSE {})
        \cup (IF "email" \in Names(description) THEN {"wrong_email"} ELSE {})
        \cup (IF "password" \in Names(description) THEN {"wrong_password"} ELSE {})

\* The request a client forms from the permuted document of `mixer` for the
\* operation at path p, method m of the document, with the Host header every
\* request has.  op and tamper only record what the client meant; the proxy
\* reads neither, nor json.
ClientRequest(user, mixer, p, m, tamper) ==
    LET entry == mixer.permuted_swagger.paths[p]
        permuted == entry.v[m].v.parameters
        canonical == mixer.swagger.paths[p].v[m].v.parameters
        S(in_) == Sent(permuted, canonical, 1, in_, user, tamper)
        Extra(t, k, v) == IF tamper = t THEN <<Entry(k, v)>> ELSE <<>>
    IN  [user_pk |-> user,
         path |-> Bind(entry.k),
         method |-> entry.v[m].k,
         headers |-> S("header") \o <<Entry("Host", "proxy")>>,
         POST |-> S("formData") \o Extra("unknown_form", "foo", "bar"),
         GET |-> S("query") \o Extra("unknown_query", "foo", "bar"),
         json |-> S("body"),
         op |-> <<p, m>>,
         tamper |-> tamper]

NoMeta == [user |-> 0, user_data |-> UpstreamUsers[1]]

\* The requests a client of `user` may form from the document of `mixer`.
DescribedRequests(user, mixer) ==
    IF mixer.error # None THEN {}
    ELSE UNION {UNION {{ClientRequest(user, mixer, p, m, t) :
                           t \in Tampers(mixer.swagger.paths[p].v[m].v)} :
                       m \in 1..Len(mixer.swagger.paths[p].v)} :
                p \in 1..Len(mixer.swagger.paths)}

\* The requests the clients of `user` may send.
ClientRequests(user) ==
    DescribedRequests(user, ApiMixer(swagger, user, NoMeta, global_rnd).mixer)

\* The canonical invocation the client of a request meant, as the request the
\* proxy owes upstream: the credentials are those of the process.
Canonical(request) ==
    LET entry == swagger.paths[request.op[1]]
        canonical == entry.v[request.op[2]].v.parameters
        S(in_) == Sent(canonical, canonical, 1, in_, request.user_pk, request.tamper)
    IN  [method |-> entry.v[request.op[2]].k,
         url |-> [host |-> swagger.host, path |-> Bind(entry.k)],
         headers |-> DictSet(DictSet(S("header"), "App-Token", HubstaffAppToken),
                             "Auth-Token", HubstaffAuthToken),
         json |-> S("body"),
         params |-> S("query"),
         data |-> S("formData")]

\* What upstream may answer to a request.
Task(id, user_id) == JDict(<<Entry("id", JStr(id)), Entry("user_id", JStr(user_id))>>)

UpstreamResponses ==
    { [status |-> 200,
       body |-> JDict(<<Entry("tasks", JList(<<Task("1", "10"), Task("2", "20")>>))>>)],
      [status |-> 404,
       body |-> JDict(<<Entry("error", JStr("Not found"))>>)],
      [status |-> 401,
       body |-> JDict(<<Entry("error", JStr("Invalid auth_token"))>>)],
      [status |-> 401, body |-> NotJson],
      [status |-> 200, body |-> NotJson] }

\* What upstream may answer while it takes the credentials of the process.
Granted == {response \in UpstreamResponses : response.status # 401}

\* ------------------------------------------------ the abuse log (views.py)

HUBSTAFF_MAX_FAILED_BEFORE_BLOCK == 2
MaxTime == 48

\* A filter without a window: every row counts for ever.
Ever(rows, t) == rows

\* .filter(datetime__gte=now() - timedelta(hours=24)): the rows it selects
Recent(rows, t) ==
    [row \in {r \in DOMAIN rows : r.datetime >= t - 24} |-> rows[row]]

\* user.failed_attempts: the rows of the user
FailedAttempts(rows, user) ==
    [row \in {r \in DOMAIN rows : r.user = user} |-> rows[row]]

\* AccessAttemptFailure.objects.filter(...).count() >= 10
EveryoneBlocked(rows, t) == BagCardinality(Recent(rows, t)) >= 10

\* A check that blocks the user one row earlier.
UserBlockedAtLimit(rows, user, t) ==
    BagCardinality(Recent(FailedAttempts(rows, user), t))
        >= HUBSTAFF_MAX_FAILED_BEFORE_BLOCK

\* user.failed_attempts.filter(...).count() > settings.HUBSTAFF_MAX_FAILED_BEFORE_BLOCK
UserBlocked(rows, user, t) ==
    BagCardinality(Recent(FailedAttempts(rows, user), t))
        > HUBSTAFF_MAX_FAILED_BEFORE_BLOCK

\* A log that holds a row of a user and a time once only.
CreateUnlessLogged(rows, user, t) ==
    IF [user |-> user, datetime |-> t] \in DOMAIN rows THEN rows
    ELSE rows (+) SetToBag({[user |-> user, datetime |-> t]})

\* AccessAttemptFailure.objects.create(user=user) at time t
Create(rows, user, t) == rows (+) SetToBag({[user |-> user, datetime |-> t]})

\* ------------------------------------------------------ the view `proxy`

Handlers == {"h1", "h2"}

NotCached ==
    [error |-> None, swagger |-> EmptyDoc, seed |-> 0, meta |-> NoMeta,
     permuted_swagger |-> EmptyDoc,
     original_parameters |-> <<>>, permuted_parameters |-> <<>>]

NoClientRequest ==
    [user_pk |-> 0, path |-> <<>>, method |-> None, headers |-> <<>>,
     POST |-> <<>>, GET |-> <<>>, json |-> <<>>, op |-> <<0, 0>>, tamper |-> None]

NoAdmission == [at |-> 0, verdict |-> None]
NoResponse == [status |-> 0, data |-> JNull]
\* response of session.send, before there is one.
NoAnswer == [status |-> 0, body |-> JNull]

\* A handler: where it stands in proxy, the request, when the admission check
\* ran and what it decided, its mixer, the number of
\* GET /users it sent, the address and the request it built, what upstream
\* answered, and its response.
NoHandler ==
    [pc |-> "idle", request |-> NoClientRequest, admission |-> NoAdmission,
     mixer |-> NotCached, users_calls |-> 0, url |-> NoUrl,
     upstream |-> NoRequest, answer |-> NoAnswer, response |-> NoResponse]

\* One of `requests` arrives at urls.py's r'^v(?P<user_pk>\d+)/'.
Receive(h, requests) ==
    /\ handlers[h].pc = "idle"
    /\ \E request \in requests :
           handlers' = [handlers EXCEPT ![h] =
               [NoHandler EXCEPT !.pc = "received", !.request = request]]
    /\ UNCHANGED <<tape, swagger, global_rnd, engine_vars, now, failures, cache>>

\* Checks whose verdict is noted while the request goes on regardless.
AdmitLate(h) ==
    /\ handlers[h].pc = "received"
    /\ LET user == handlers[h].request.user_pk
           verdict == IF EveryoneBlocked(failures, now) THEN "PermissionDenied"
                      ELSE IF UserBlocked(failures, user, now)
                      THEN "SuspiciousOperation"
                      ELSE "admitted"
       IN  handlers' = [handlers EXCEPT ![h] =
               [@ EXCEPT !.admission = [at |-> now, verdict |-> verdict],
                         !.pc = "admitted"]]
    /\ UNCHANGED <<tape, swagger, global_rnd, engine_vars, now, failures, cache>>

\* proxy, lines 185-193: the two checks; what they raise reaches
\* jsonify_exceptions.
Admit(h) ==
    /\ handlers[h].pc = "received"
    /\ LET user == handlers[h].request.user_pk
           verdict == IF EveryoneBlocked(failures, now) THEN "PermissionDenied"
                      ELSE IF UserBlocked(failures, user, now)
                      THEN "SuspiciousOperation"
                      ELSE "admitted"
       IN  handlers' = [handlers EXCEPT ![h] =
               [@ EXCEPT !.admission = [at |-> now, verdict |-> verdict],
                         !.pc = IF verdict = "admitted" THEN "admitted" ELSE "done",
                         !.response = IF verdict = "admitted" THEN @
                                      ELSE ErrorResponse(verdict)]]
    /\ UNCHANGED <<tape, swagger, global_rnd, engine_vars, now, failures, cache>>

\* get_mixer(user_pk): the look-up of lru_cache.
LookupMixer(h) ==
    /\ handlers[h].pc = "admitted"
    /\ LET user == handlers[h].request.user_pk
       IN  handlers' = [handlers EXCEPT ![h] =
               IF cache[user] # NotCached
               THEN [@ EXCEPT !.pc = "reversing", !.mixer = cache[user]]
               ELSE [@ EXCEPT !.pc = "building"]]
    /\ UNCHANGED <<tape, swagger, global_rnd, engine_vars, now, failures, cache>>

\* get_mixer(user_pk): the body, after a miss; lru_cache keeps the result
\* unless the key has been filled meanwhile.
BuildMixer(h) ==
    /\ handlers[h].pc = "building"
    /\ \E user \in {handlers[h].request.user_pk} :
       \E found \in {FindUserData(Email(user), 0, 0)} :
       \E built \in {ApiMixer(swagger, user,
                              [user |-> user, user_data |-> found.user_data],
                              global_rnd)} :
           IF ~found.found
           THEN /\ handlers' = [handlers EXCEPT ![h] =
                       [@ EXCEPT !.pc = "done", !.users_calls = found.calls,
                                 !.response = ErrorResponse("User not found")]]
                /\ UNCHANGED <<global_rnd, cache>>
           ELSE IF built.mixer.error # None
           THEN /\ handlers' = [handlers EXCEPT ![h] =
                       [@ EXCEPT !.pc = "done", !.users_calls = found.calls,
                                 !.response = ErrorResponse("Out of synonyms")]]
                /\ global_rnd' = built.global_rnd
                /\ UNCHANGED cache
           ELSE /\ handlers' = [handlers EXCEPT ![h] =
                       [@ EXCEPT !.pc = "reversing", !.users_calls = found.calls,
                                 !.mixer = built.mixer]]
                /\ global_rnd' = built.global_rnd
                /\ cache' = IF cache[user] = NotCached
                            THEN [cache EXCEPT ![user] = built.mixer]
                            ELSE cache
    /\ UNCHANGED <<tape, swagger, engine_vars, now, failures>>

\* get_mixer, line 66: upstream refuses GET /users (a 401 or another error
\* status); raise_for_status raises, nothing is cached, and the exception
\* reaches jsonify_exceptions.
UsersFails(h) ==
    /\ handlers[h].pc = "building"
    /\ handlers' = [handlers EXCEPT ![h] =
           [@ EXCEPT !.pc = "done", !.users_calls = 1,
                     !.response = ErrorResponse("HTTPError")]]
    /\ UNCHANGED <<tape, swagger, global_rnd, engine_vars, now, failures, cache>>

\* proxy, lines 196-257: up to the answer of the proxy itself, an exception,
\* or session.send.
Translate(h) ==
    /\ handlers[h].pc = "reversing"
    /\ \E t \in {Outcome(handlers[h].mixer, _request_to_params(handlers[h].request),
                         handlers[h].request.user_pk)} :
           handlers' = [handlers EXCEPT ![h] =
               [@ EXCEPT !.url = t.url,
                         !.upstream = t.request,
                         !.pc = IF t.kind = "send" THEN "waiting" ELSE "done",
                         !.response =
                             CASE t.kind = "send"  -> @
                               [] t.kind = "local" ->
                                      JsonResponse(200, t.result, handlers[h].mixer.meta)
                               [] OTHER -> ErrorResponse(t.error)]]
    /\ UNCHANGED <<tape, swagger, global_rnd, engine_vars, now, failures, cache>>

\* proxy, lines 259-268: upstream has answered.
Respond(h, response) ==
    /\ handlers[h].pc = "waiting"
    /\ failures' = IF response.status = 401
                   THEN Create(failures, handlers[h].request.user_pk, now)
                   ELSE failures
    /\ handlers' = [handlers EXCEPT ![h] =
           [@ EXCEPT !.pc = "done",
                     !.answer = response,
                     !.response =
                         IF response.body = NotJson
                         THEN ErrorResponse("JSONDecodeError")
                         ELSE JsonResponse(response.status, response.body,
                                           handlers[h].mixer.meta)]]
    /\ UNCHANGED <<tape, swagger, global_rnd, engine_vars, now, cache>>

\* proxy, line 257: session.send raises (no connection, a timeout); the
\* exception reaches jsonify_exceptions.
SendFails(h) ==
    /\ handlers[h].pc = "waiting"
    /\ handlers' = [handlers EXCEPT ![h] =
           [@ EXCEPT !.pc = "done", !.response = ErrorResponse("ConnectionError")]]
    /\ UNCHANGED <<tape, swagger, global_rnd, engine_vars, now, failures, cache>>

\* The response has gone out.
Finish(h) ==
    /\ handlers[h].pc = "done"
    /\ handlers' = [handlers EXCEPT ![h] = NoHandler]
    /\ UNCHANGED <<tape, swagger, global_rnd, engine_vars, now, failures, cache>>

\* SwaggerView.get for the logged-in `user`, sent to the address `host`:
\* get_mixer (with the body on a miss), then swagger['host'] = HTTP_HOST on the
\* permuted_swagger of the mixer, the object the cache and the handlers of the
\* user hold.
SwaggerView(user, host) ==
    /\ \E found \in {FindUserData(Email(user), 0, 0)} :
       \E built \in {ApiMixer(swagger, user,
                              [user |-> user, user_data |-> found.user_data],
                              global_rnd)} :
       \E mixer \in {IF cache[user] # NotCached THEN cache[user] ELSE built.mixer} :
           /\ cache[user] = NotCached => found.found /\ built.mixer.error = None
           /\ global_rnd' = IF cache[user] = NotCached THEN built.global_rnd
                             ELSE global_rnd
           /\ cache' = [cache EXCEPT ![user] =
                            [mixer EXCEPT !.permuted_swagger.host = host]]
    /\ handlers' = [h \in Handlers |->
           IF handlers[h].mixer # NotCached /\ handlers[h].request.user_pk = user
           THEN [handlers[h] EXCEPT !.mixer.permuted_swagger.host = host]
           ELSE handlers[h]]
    /\ UNCHANGED <<tape, swagger, engine_vars, now, failures>>

\* Time passes.
Tick(hours) ==
    /\ now + hours <= MaxTime
    /\ now' = now + hours
    /\ UNCHANGED <<tape, swagger, global_rnd, engine_vars, failures, cache, handlers>>

\* --------------------------------------------------------- specifications

vars == <<tape, swagger, global_rnd, mixers, reversed, now, failures, cache, handlers>>

InitProxy ==
    /\ now = 0
    /\ failures = EmptyBag
    /\ cache = [user \in UserPks |-> NotCached]
    /\ handlers = [h \in Handlers |-> NoHandler]

InitEngine ==
    /\ tape \in Tapes
    /\ swagger \in EngineDocs
    /\ global_rnd = [shared |-> TRUE, seed |-> 1, pos |-> 0]
    /\ mixers = [b \in Builders |-> NoMixer]
    /\ reversed = NoCall
    /\ InitProxy

NextEngine ==
    \E b \in Builders :
        \/ \E seed \in Seeds : Construct(b, seed)
        \/ StepPermutePaths(b)
        \/ StepPermuteLocations(b)
        \/ StepPermuteResult(b)
        \/ StepAsParameters(b)
        \/ \E i \in 1..Len(mixers[b].permuted_parameters) : CallReverse(b, i)
        \/ Drop(b)

SpecEngine == InitEngine /\ [][NextEngine]_vars

\* Requests of every kind for every operation, to an upstream that takes the
\* credentials of the process.
Init ==
    /\ tape \in Tapes
    /\ swagger \in ProxyDocs
    /\ global_rnd = [shared |-> TRUE, seed |-> 1, pos |-> 0]
    /\ mixers = [b \in Builders |-> NoMixer]
    /\ reversed = NoCall
    /\ InitProxy

Next ==
    \/ Receive("h1", UNION {ClientRequests(user) : user \in UserPks})
    \/ Admit("h1")
    \/ LookupMixer("h1")
    \/ BuildMixer("h1")
    \/ Translate("h1")
    \/ \E response \in Granted : Respond("h1", response)
    \/ SendFails("h1")
    \/ Finish("h1")

Spec == Init /\ [][Next]_vars

\* Rows of users who are no longer there (user is NULL: on_delete=SET_NULL).
OldRows == [row \in {[user |-> 0, datetime |-> 0]} |-> 8]

\* The requests for GET /v1/tasks and POST /v1/auth as the permuted document
\* describes them.
PlainRequests(user) ==
    {request \in ClientRequests(user) :
        request.tamper = "none" /\ request.op \in {<<1, 1>>, <<2, 1>>}}

\* Plain requests while time passes, to an upstream that may answer 401; the
\* log may hold old rows to begin with.  Nothing here reads what the tape
\* decides, so there is one tape.
InitAbuse ==
    /\ tape = [i \in 0..(TapeLen - 1) |-> 0]
    /\ swagger = HubstaffDoc
    /\ global_rnd = [shared |-> TRUE, seed |-> 1, pos |-> 0]
    /\ mixers = [b \in Builders |-> NoMixer]
    /\ reversed = NoCall
    /\ now = 0
    /\ failures \in {EmptyBag, OldRows}
    /\ cache = [user \in UserPks |-> NotCached]
    /\ handlers = [h \in Handlers |-> NoHandler]

NextAbuse ==
    \/ Receive("h1", UNION {PlainRequests(user) : user \in UserPks})
    \/ Admit("h1")
    \/ LookupMixer("h1")
    \/ BuildMixer("h1")
    \/ Translate("h1")
    \/ \E response \in UpstreamResponses : Respond("h1", response)
    \/ Finish("h1")
    \/ Tick(24)

SpecAbuse == InitAbuse /\ [][NextAbuse]_vars

\* The longest list upstream sends in the specification of the filter.
MaxItems == 2

\* The entries upstream may list: with the fields the filter looks for, of
\* either user, and entries with none of them.
Item(key, value) == JDict(<<Entry("id", JStr("1")), Entry(key, value)>>)

ListItems ==
    {Item("email", JStr(UpstreamUsers[i].email)) : i \in 1..2}
    \cup {Item("user", JDict(<<Entry("email", JStr(UpstreamUsers[i].email))>>)) : i \in 1..2}
    \cup {Item("user", JDict(<<Entry("id", JStr(UpstreamUsers[i].id))>>)) : i \in 1..2}
    \cup {Item("name", JStr(n)) : n \in {"org1", "org2", "p1", "p2"}}
    \cup {Item("user_id", JStr(UpstreamUsers[i].id)) : i \in 1..2}
    \cup {Item("project_id", JStr(n)) : n \in {"100", "200"}}
    \cup {JDict(<<Entry("id", JStr("1"))>>)}

ListKeys == {"users", "organizations", "projects", "tasks"}

\* Upstream answers 200 with one list under one key.
ListResponses ==
    {[status |-> 200, body |-> JDict(<<Entry(key, JList(items))>>)] :
        key \in ListKeys,
        items \in UNION {[1..n -> ListItems] : n \in 0..MaxItems}}

\* GET /v1/tasks as the permuted document describes it.
ListRequests(user) ==
    {request \in ClientRequests(user) :
        request.tamper = "none" /\ request.op = <<2, 1>>}

\* Requests whose answers are lists of every kind the filter knows; one tape.
InitFilter ==
    /\ tape = [i \in 0..(TapeLen - 1) |-> 0]
    /\ swagger = HubstaffDoc
    /\ global_rnd = [shared |-> TRUE, seed |-> 1, pos |-> 0]
    /\ mixers = [b \in Builders |-> NoMixer]
    /\ reversed = NoCall
    /\ InitProxy

NextFilter ==
    \/ Receive("h1", UNION {ListRequests(user) : user \in UserPks})
    \/ Admit("h1")
    \/ LookupMixer("h1")
    \/ BuildMixer("h1")
    \/ Translate("h1")
    \/ \E response \in ListResponses : Respond("h1", response)
    \/ Finish("h1")

SpecFilter == InitFilter /\ [][NextFilter]_vars

\* The addresses under which clients reach the proxy.
Hosts == {"proxy", "proxy.example"}

\* Plain requests and requests for the document of a user, one at a time.
NextSwagger ==
    \/ Receive("h1", UNION {PlainRequests(user) : user \in UserPks})
    \/ Admit("h1")
    \/ LookupMixer("h1")
    \/ BuildMixer("h1")
    \/ Translate("h1")
    \/ \E response \in Granted : Respond("h1", response)
    \/ Finish("h1")
    \/ \E user \in UserPks, host \in Hosts : SwaggerView(user, host)

SpecSwagger == InitFilter /\ [][NextSwagger]_vars

\* Two handlers at once, as the threads of the server run proxy; one tape.
NextConcurrent ==
    \E h \in Handlers :
        \/ Receive(h, UNION {PlainRequests(user) : user \in UserPks})
        \/ Admit(h)
        \/ LookupMixer(h)
        \/ BuildMixer(h)
        \/ Translate(h)
        \/ \E response \in Granted : Respond(h, response)
        \/ Finish(h)

SpecConcurrent == InitFilter /\ [][NextConcurrent]_vars

\* The requests for POST /v1/auth and GET /v1/tasks: plain, with a parameter
\* the document does not have, with a wrong or a missing token, and with a
\* wrong password.
LogRequests(user) ==
    {request \in ClientRequests(user) :
        /\ request.op \in {<<1, 1>>, <<2, 1>>}
        /\ request.tamper \in {"none", "unknown_query", "wrong_auth_token",
                               "no_app_token", "wrong_password"}}

\* Requests of every kind while time passes, to an upstream that may answer
\* 401, refuse GET /users, or not answer at all; one tape.
NextLog ==
    \/ Receive("h1", UNION {LogRequests(user) : user \in UserPks})
    \/ Admit("h1")
    \/ LookupMixer("h1")
    \/ BuildMixer("h1")
    \/ UsersFails("h1")
    \/ Translate("h1")
    \/ \E response \in UpstreamResponses : Respond("h1", response)
    \/ SendFails("h1")
    \/ Finish("h1")
    \/ Tick(24)

SpecLog == InitFilter /\ [][NextLog]_vars

\* What upstream answers in the specification of the race: it takes the
\* credentials or it does not.
RaceResponses ==
    {response \in UpstreamResponses :
        response.status \in {200, 401} /\ response.body # NotJson}

\* Two handlers at once with requests for GET /v1/tasks, to an upstream that
\* may answer 401; the log may hold old rows to begin with.
NextRace ==
    \E h \in Handlers :
        \/ Receive(h, UNION {ListRequests(user) : user \in UserPks})
        \/ Admit(h)
        \/ LookupMixer(h)
        \/ BuildMixer(h)
        \/ Translate(h)
        \/ \E response \in RaceResponses : Respond(h, response)
        \/ Finish(h)

SpecRace == InitAbuse /\ [][NextRace]_vars

\* The step of the clock where blocks are watched lifting.
Step == 12

\* Requests of user 1 for GET /v1/tasks one at a time, to an upstream that
\* may answer 401, while time passes in steps of twelve hours; the clock does
\* not stop before MaxTime.  The other user meets the block on every user.
NextLockout ==
    \/ Receive("h1", ListRequests(1))
    \/ Admit("h1")
    \/ LookupMixer("h1")
    \/ BuildMixer("h1")
    \/ Translate("h1")
    \/ \E response \in RaceResponses : Respond("h1", response)
    \/ Finish("h1")
    \/ Tick(Step)

SpecLockout == InitAbuse /\ [][NextLockout]_vars /\ WF_vars(Tick(Step))

\* ------------------------------------------------- the engine's properties

Constructed(b) == mixers[b].pc = "built"

\* The index of a path among the paths of the canonical document.
PathIndex(path) ==
    CHOOSE p \in 1..Len(swagger.paths) : swagger.paths[p].k = path

\* The position of entry i among the entries of its own operation.
OpPosition(list, i) ==
    Cardinality({j \in 1..i : /\ list[j].path = list[i].path
                              /\ list[j].method = list[i].method})

\* C2: for every built mixer and every index i, reverse(permuted_parameters[i])
\* finds index i itself: no earlier entry of the list shadows a later one.
C2_ReverseFindsOwnIndex ==
    reversed.b # None => reversed.idx = reversed.i

\* C3: after construction the two parameter lists have the same length and
\* entry i of both is the same parameter of the same operation: the permuted
\* path is the image of the original path, the methods are equal and the
\* parameter holds the same position inside its operation.
C3_PositionalBijection ==
    \A b \in Builders : Constructed(b) =>
        LET o == mixers[b].original_parameters
            p == mixers[b].permuted_parameters
        IN  /\ Len(o) = Len(p)
            /\ \A i \in 1..Len(o) :
                  /\ p[i].path = mixers[b].images[PathIndex(o[i].path)]
                  /\ p[i].method = o[i].method
                  /\ OpPosition(p, i) = OpPosition(o, i)

\* C4: two constructions with the same seed that have come equally far hold
\* the same permuted document and the same parameter lists, whatever was
\* constructed before or in between, and no step moves the process-wide
\* generator.
C4_Deterministic ==
    /\ global_rnd.pos = 0
    /\ \A b1, b2 \in Builders :
          (mixers[b1].seed = mixers[b2].seed /\ mixers[b1].pc = mixers[b2].pc)
              => mixers[b1] = mixers[b2]

\* Two finished constructions with one seed, under a tape of differing numbers,
\* whose permuted paths differ from the original ones.
C4_Witness ==
    /\ tape[0] # tape[1]
    /\ Constructed("b1") /\ Constructed("b2")
    /\ mixers["b1"].seed = 2 /\ mixers["b2"].seed = 2
    /\ mixers["b1"].part_to_name # <<>>

IsToken(part) == part # "" /\ ~IsVersion(part) /\ ~IsPlaceholder(part)

\* The candidates of a token: its synonyms and itself.
Candidates(part) ==
    LET values == DictGet(SYNONYMS, part, <<>>)
    IN  {values[i] : i \in 1..Len(values)} \cup {part}

\* C5: within one permute_paths run every token has one replacement, used on
\* every path; distinct tokens have distinct replacements, each a candidate of
\* its token; and the run fails exactly on a token all of whose candidates
\* are taken by other tokens.
C5_TokenMapping ==
    \A b \in Builders : mixers[b].pc \notin {"idle", "copied"} =>
        LET m == mixers[b]
            p2n == m.part_to_name
        IN  /\ \A i \in 1..Len(m.images) :
                  LET path == swagger.paths[i].k
                  IN  /\ Len(m.images[i]) = Len(path)
                      /\ \A k \in 1..Len(path) :
                            IsToken(path[k]) =>
                                m.images[i][k] = DictGet(p2n, path[k], None)
            /\ \A x, y \in 1..Len(p2n) : p2n[x].v = p2n[y].v => x = y
            /\ \A x \in 1..Len(p2n) : p2n[x].v \in Candidates(p2n[x].k)
            /\ m.error # None =>
                  /\ m.pc = "failed"
                  /\ ~DictHas(p2n, m.error)
                  /\ Candidates(m.error) \subseteq DictValues(p2n)
            /\ m.error = None => Len(m.images) = Len(swagger.paths)

\* A run that ran out of synonyms after it had assigned some.
C5_Witness ==
    \E b \in Builders :
        /\ mixers[b].pc = "failed"
        /\ Len(mixers[b].part_to_name) >= 2

\* -------------------------------------------------- the proxy's properties

Handled == {h \in Handlers : handlers[h].pc # "idle"}

\* The handler has been through the loop over the parameters of its request.
Translating(h) ==
    handlers[h].pc \in {"waiting", "done"} /\ handlers[h].mixer # NotCached

Sending(h) == handlers[h].upstream # NoRequest

\* The response carries an error message under `result`.
IsError(response) ==
    /\ response.status = 400
    /\ response.data.t = "dict"
    /\ DictHas(response.data.v, "result")
    /\ DictHas(DictGet(response.data.v, "result", JNull).v, "error")

\* What the client of a request sent for a parameter, None if nothing.
Supplied(request, name) ==
    IF Omitted(name, request.tamper)
          \/ name \notin Names(swagger.paths[request.op[1]].v[request.op[2]].v)
    THEN None
    ELSE SuppliedValue(request.user_pk, name, request.tamper)

IsAuthOp(request) == swagger.paths[request.op[1]].k = AuthUrl.path

AsSet(d) == {d[i] : i \in 1..Len(d)}

\* C1: a request formed from the permuted document for an operation, with the
\* right credentials and nothing added, is sent upstream as the canonical
\* invocation: canonical method, canonical path with the same placeholder
\* values, the same header (but for the credentials), query, form and body
\* values.
C1_RoundTrip ==
    \A h \in Handled :
        LET r == handlers[h]
            c == Canonical(r.request)
        IN  (Translating(h) /\ r.request.tamper = "none" /\ ~IsAuthOp(r.request)) =>
                /\ Sending(h)
                /\ r.upstream.method = c.method
                /\ r.upstream.url = c.url
                /\ AsSet(r.upstream.headers) = AsSet(c.headers)
                /\ AsSet(r.upstream.params) = AsSet(c.params)
                /\ AsSet(r.upstream.data) = AsSet(c.data)
                /\ AsSet(r.upstream.json) = AsSet(c.json)

\* The number of rows of the log, of `users`, that are at most 24 hours old.
RecentRows(users) ==
    BagCardinality([row \in {r \in DOMAIN failures :
                                r.user \in users /\ now - r.datetime <= 24}
                       |-> failures[row]])

\* C6: the admission check rejects everyone exactly when at least ten rows of
\* the log are at most 24 hours old, and otherwise rejects the user of the
\* request exactly when more than HUBSTAFF_MAX_FAILED_BEFORE_BLOCK rows of that
\* user are at most 24 hours old, which is when the user has just collected
\* one row more than that; older rows count for neither.
C6_AbuseThresholds ==
    [][\A h \in Handlers :
          (handlers[h].pc = "received" /\ handlers'[h].pc # "received") =>
              LET verdict == handlers'[h].admission.verdict
                  all == RecentRows(UserPks \cup {0})
                  own == RecentRows({handlers[h].request.user_pk})
              IN  /\ verdict = "PermissionDenied" <=> all >= 10
                  /\ verdict = "SuspiciousOperation" <=>
                         (all < 10 /\ own > HUBSTAFF_MAX_FAILED_BEFORE_BLOCK)
                  /\ verdict = "SuspiciousOperation" =>
                         own = HUBSTAFF_MAX_FAILED_BEFORE_BLOCK + 1
                  /\ verdict = "admitted" <=>
                         (all < 10 /\ own <= HUBSTAFF_MAX_FAILED_BEFORE_BLOCK)]_vars

\* A user has been rejected while the log also holds rows of that user older
\* than 24 hours.
C6_Witness ==
    \E h \in Handled :
        /\ handlers[h].pc = "done"
        /\ handlers[h].admission.verdict = "SuspiciousOperation"
        /\ \E row \in DOMAIN failures :
              /\ row.user = handlers[h].request.user_pk
              /\ handlers[h].admission.at - row.datetime > 24

\* C7: a request rejected by the admission check is answered with status 403.
C7_RejectedWith403 ==
    \A h \in Handled :
        (handlers[h].pc = "done"
            /\ handlers[h].admission.verdict
                   \in {"PermissionDenied", "SuspiciousOperation"})
            => handlers[h].response.status = 403

\* The client sent both tokens of the user named in the URL.
RightTokens(h) ==
    /\ Supplied(handlers[h].request, "App-Token")
           = AppToken(handlers[h].request.user_pk)
    /\ Supplied(handlers[h].request, "Auth-Token")
           = AuthToken(handlers[h].request.user_pk)

\* C8, amended: a request that is sent upstream carries the tokens of the
\* process and nowhere a token of the user, and it is sent only if the client
\* supplied both tokens of the user named in the URL; a request for another
\* address than /v1/auth with a token missing or wrong ends in an error and is
\* itself never sent (the GET /users of a cache miss may have gone out).
C8_CredentialInjection ==
    \A h \in Handled :
        LET r == handlers[h]
            user == r.request.user_pk
        IN  /\ Sending(h) =>
                /\ RightTokens(h)
                /\ DictGet(r.upstream.headers, "App-Token", None) = HubstaffAppToken
                /\ DictGet(r.upstream.headers, "Auth-Token", None) = HubstaffAuthToken
                /\ \A e \in AsSet(r.upstream.headers) \cup AsSet(r.upstream.params) :
                      e.v \notin {AppToken(user), AuthToken(user)}
            /\ (Translating(h) /\ ~RightTokens(h) /\ r.url # AuthUrl) =>
                /\ ~Sending(h)
                /\ r.pc = "done"
                /\ IsError(r.response)

\* C8 as stated: a request with a token missing or wrong fails before any call
\* to upstream, GET /users included.
C8_FailsBeforeAnyUpstreamCall ==
    \A h \in Handled :
        (Translating(h) /\ ~RightTokens(h) /\ handlers[h].url # AuthUrl) =>
            /\ ~Sending(h)
            /\ handlers[h].users_calls = 0

\* A request is sent whose client passed a token in the query string.
C8_Witness ==
    \E h \in Handled :
        /\ Sending(h)
        /\ DictHas(handlers[h].request.GET, "app_token")

\* C9: a request for the operation at /v1/auth is never sent upstream; the
\* proxy answers it with 200 and {id, name, last_activity: null, auth_token:
\* the token stored for the user} under `result` exactly when email, password
\* and App-Token are those of the user, and with an error otherwise.
C9_LocalAuth ==
    \A h \in Handled :
        LET r == handlers[h]
            user == r.request.user_pk
            matches == /\ Supplied(r.request, "email") = Email(user)
                       /\ Supplied(r.request, "password") = Password(user)
                       /\ Supplied(r.request, "App-Token") = AppToken(user)
            granted == JDict(<<Entry("id", JNull), Entry("name", JNull),
                               Entry("last_activity", JNull),
                               Entry("auth_token", JStr(AuthToken(user)))>>)
        IN  /\ IsAuthOp(r.request) => ~Sending(h)
            /\ (Translating(h) /\ IsAuthOp(r.request)
                    /\ r.request.tamper \notin {"unknown_query", "unknown_form"})
                   => r.url = AuthUrl
            /\ r.url = AuthUrl =>
                /\ ~Sending(h)
                /\ r.pc = "done"
                /\ matches =>
                       r.response = [status |-> 200,
                                     data |-> JDict(<<Entry("result", granted)>>)]
                /\ ~matches => IsError(r.response)

\* The proxy has granted the stored token.
C9_Witness ==
    \E h \in Handled :
        /\ handlers[h].url = AuthUrl
        /\ handlers[h].response.status = 200

\* The entries of permuted_parameters in the given locations that match no
\* parameter of the mixer.
Unmatched(h, locations) ==
    LET observed == _request_to_params(handlers[h].request)
    IN  {i \in 1..Len(observed) :
            /\ observed[i].k.in_ \in locations
            /\ reverse(handlers[h].mixer, observed[i].k).idx = 0}

\* permuted_parameters without its entries at the given indices.
RECURSIVE Without(_, _, _)
Without(observed, i, indices) ==
    IF i > Len(observed) THEN <<>>
    ELSE (IF i \in indices THEN <<>> ELSE <<observed[i]>>)
             \o Without(observed, i + 1, indices)

\* C10, amended: a request with a query or form parameter that matches no
\* permuted parameter of the mixer ends in status 400 with an error under
\* `result` and is itself never sent (the GET /users of a cache miss may have
\* gone out); headers and the path entry that match nothing change nothing:
\* the proxy treats the request as it treats the request without them.
C10_UnknownParameter ==
    \A h \in Handled :
        LET r == handlers[h]
            observed == _request_to_params(r.request)
            without == Outcome(r.mixer,
                               Without(observed, 1, Unmatched(h, {"path", "header"})),
                               r.request.user_pk)
        IN  Translating(h) =>
                /\ Unmatched(h, {"query", "formData"}) # {} =>
                       /\ r.pc = "done"
                       /\ IsError(r.response)
                       /\ ~Sending(h)
                /\ r.url = without.url
                /\ r.upstream = without.request
                /\ Sending(h) <=> without.kind = "send"

\* C10 as stated: for a request with an unknown query or form parameter no
\* request at all goes upstream, GET /users included.
C10_NoUpstreamRequestAtAll ==
    \A h \in Handled :
        (Translating(h) /\ Unmatched(h, {"query", "formData"}) # {}) =>
            /\ ~Sending(h)
            /\ handlers[h].users_calls = 0

\* A request with a header and a query parameter nobody declared has been
\* refused.
C10_Witness ==
    \E h \in Handled :
        /\ Translating(h)
        /\ Unmatched(h, {"query"}) # {}
        /\ Unmatched(h, {"header"}) # {}

\* ------------------------------------------------ Parameter equality (C11)

\* The concrete path P matches the whole template T, every placeholder standing
\* for exactly one non-empty segment.
WholeTemplate(T, P) ==
    /\ Len(T) = Len(P)
    /\ \A i \in 1..Len(T) :
          IF IsPlaceholder(T[i]) THEN P[i] # "" ELSE T[i] = P[i]

\* C11: the parameter an observed request stands for equals a parameter of the
\* permuted list, whose path is a template, exactly when its path matches the
\* whole template segment by segment and method, in and name are null on one
\* side or equal ignoring case.
C11_PathEquality ==
    \A h \in Handled :
        Translating(h) =>
            LET observed == _request_to_params(handlers[h].request)
                permuted == handlers[h].mixer.permuted_parameters
            IN  \A i \in 1..Len(observed), j \in 1..Len(permuted) :
                    ParameterEq(permuted[j], observed[i].k) <=>
                        /\ WholeTemplate(permuted[j].path, observed[i].k.path)
                        /\ FieldEq(permuted[j].method, observed[i].k.method)
                        /\ FieldEq(permuted[j].in_, observed[i].k.in_)
                        /\ FieldEq(permuted[j].name, observed[i].k.name)

\* ------------------------------------------- path-parameter extraction (C12)

\* The position of the placeholder {name} in the template T, 0 if it has none.
PlaceholderAt(T, name) ==
    IF \E i \in 1..Len(T) : IsPlaceholder(T[i]) /\ PlaceholderName(T[i]) = name
    THEN CHOOSE i \in 1..Len(T) : IsPlaceholder(T[i]) /\ PlaceholderName(T[i]) = name
    ELSE 0

\* What the loop of proxy stores for one observed entry alone.
StoredFor(mixer, entry) ==
    RestoreParameters(mixer, <<entry>>, 1, [parameters |-> <<>>, error |-> None])

\* C12: whenever an observed parameter of a request is reversed to a parameter
\* whose canonical location is `path`, the loop stores for it the one segment
\* of the observed path that stands where the template of the request's own
\* operation has the placeholder of that name.
C12_PathExtraction ==
    \A h \in Handled :
        Translating(h) =>
            LET r == handlers[h]
                observed == _request_to_params(r.request)
                own == r.mixer.permuted_swagger.paths[r.request.op[1]].k
            IN  \A i \in 1..Len(observed) :
                    LET rev == reverse(r.mixer, observed[i].k)
                        at == PlaceholderAt(own, rev.original.name)
                    IN  (rev.idx # 0 /\ rev.original.in_ = "path") =>
                            /\ at # 0
                            /\ StoredFor(r.mixer, observed[i]) =
                                   [parameters |-> <<[k |-> rev.original,
                                                      v |-> <<r.request.path[at]>>]>>,
                                    error |-> None]

\* C12 for the operations nothing shadows and whose path has one placeholder.
C12_SinglePlaceholder ==
    \A h \in Handled :
        (Translating(h) /\ swagger = HubstaffDoc /\ handlers[h].request.op = <<3, 1>>) =>
            LET r == handlers[h]
                observed == _request_to_params(r.request)
                rev == reverse(r.mixer, observed[1].k)
            IN  /\ rev.idx # 0 /\ rev.original.in_ = "path"
                /\ StoredFor(r.mixer, observed[1]).parameters =
                       <<[k |-> rev.original, v |-> <<"7">>]>>

\* ------------------------------------------------ location persistence (C13)

\* The builder has run permute_locations.
Located(b) == mixers[b].pc \in {"locations", "result", "built"}

\* The document permute_locations was given: the one permute_paths left.
BeforeLocations(b) == permute_paths(swagger, mixers[b].seed, global_rnd).doc

\* The parameters of a document as [method, at, in_, name], `at` being path,
\* operation and position.
Declared(doc) ==
    {[method |-> doc.paths[p].v[m].k, at |-> <<p, m, i>>,
      in_ |-> doc.paths[p].v[m].v.parameters[i].in_,
      name |-> doc.paths[p].v[m].v.parameters[i].name] :
        <<p, m, i>> \in {t \in (1..Len(doc.paths)) \X (1..2) \X (1..5) :
                            /\ t[2] <= Len(doc.paths[t[1]].v)
                            /\ t[3] <= Len(doc.paths[t[1]].v[t[2]].v.parameters)}}

\* The location in `after` of the parameter at the place of x.
LocationIn(after, x) == (CHOOSE y \in after : y.at = x.at).in_

RECURSIVE IsSubList(_, _)
IsSubList(a, b) ==
    IF a = <<>> THEN TRUE
    ELSE IF b = <<>> THEN FALSE
    ELSE IF Head(a) = Head(b) THEN IsSubList(Tail(a), Tail(b))
    ELSE IsSubList(a, Tail(b))

\* What upstream knows of the user of a request.
Caller(user) ==
    UpstreamUsers[CHOOSE i \in 1..Len(UpstreamUsers) :
                      UpstreamUsers[i].email = Email(user)]

Has(item, key) == item.t = "dict" /\ DictHas(item.v, key)

\* The ownership rule of a list under `key` whose first entry is `first`,
\* applied to `item`: email, else user.email, else the name of an organization,
\* else the name of a project, else user_id, else project_id, else none.
Owns(user, key, first, item) ==
    IF Has(first, "email")
    THEN Has(item, "email") /\ Field(item, "email") = JStr(Email(user))
    ELSE IF Has(first, "user") /\ Has(Field(first, "user"), "email")
    THEN /\ Has(item, "user") /\ Has(Field(item, "user"), "email")
         /\ Field(Field(item, "user"), "email") = JStr(Email(user))
    ELSE IF key = "organizations"
    THEN Has(item, "name") /\ \E n \in Caller(user).organizations :
                                   Field(item, "name") = JStr(n)
    ELSE IF key = "projects"
    THEN Has(item, "name") /\ \E n \in Caller(user).projects_names :
                                   Field(item, "name") = JStr(n)
    ELSE IF Has(first, "user_id")
    THEN Has(item, "user_id") /\ Field(item, "user_id") = JStr(Caller(user).id)
    ELSE IF Has(first, "project_id")
    THEN Has(item, "project_id") /\ \E n \in Caller(user).projects_ids :
                                         Field(item, "project_id") = JStr(n)
    ELSE TRUE

\* The handler has answered with what upstream sent, filtered.
Filtered(h) ==
    /\ handlers[h].pc = "done"
    /\ handlers[h].answer # NoAnswer
    /\ ~IsError(handlers[h].response)

\* C14: for every list upstream sends under a top-level key, the list the
\* client gets under that key is a sub-list of it, in its order, all of whose
\* entries satisfy the ownership rule chosen for the list by its first entry.
C14_FilterSoundness ==
    \A h \in Handled :
        Filtered(h) =>
            LET r == handlers[h]
                sent == r.answer.body.v
                got == DictGet(r.response.data.v, "result", JNull)
            IN  /\ got.t = "dict"
                /\ \A i \in 1..Len(sent) :
                      LET key == sent[i].k
                          out == DictGet(got.v, key, JNull)
                      IN  (sent[i].v.t = "list" /\ sent[i].v.v # <<>>) =>
                              /\ out.t = "list"
                              /\ IsSubList(out.v, sent[i].v.v)
                              /\ \A j \in 1..Len(out.v) :
                                    Owns(r.request.user_pk, key,
                                         sent[i].v.v[1], out.v[j])

\* A list of two entries with `email`, the caller's second, has been cut down
\* to the caller's entry.
C14_Witness ==
    \E h \in Handled :
        /\ Filtered(h)
        /\ handlers[h].answer.body =
               JDict(<<Entry("users",
                             JList(<<Item("email", JStr(Email(OtherUser(
                                         handlers[h].request.user_pk)))),
                                     Item("email", JStr(Email(
                                         handlers[h].request.user_pk)))>>))>>)
        /\ DictGet(handlers[h].response.data.v, "result", JNull) =
               JDict(<<Entry("users",
                             JList(<<Item("email", JStr(Email(
                                         handlers[h].request.user_pk)))>>))>>)

\* ------------------------------------------------------ single-flight (C15)

\* The handler has run the body of get_mixer, or is about to: its look-up
\* missed.
Missed(h) == handlers[h].pc = "building" \/ handlers[h].users_calls > 0

\* C15: of the requests for one user that are being handled at the same time,
\* at most one runs the body of get_mixer (one paging of /users, one
\* construction); the others get the mixer it produced.
C15_SingleFlight ==
    \A h1, h2 \in Handled :
        (h1 # h2 /\ handlers[h1].request.user_pk = handlers[h2].request.user_pk) =>
            ~(Missed(h1) /\ Missed(h2))

\* ------------------------------------------------- mixer immutability (C16)

\* C16: the mixer the cache holds for a user is the same after every step as
\* before it: swagger, permuted_swagger, both parameter lists, seed and meta.
C16_MixerImmutable ==
    [][\A user \in UserPks :
           cache[user] # NotCached => cache'[user] = cache[user]]_vars

\* ------------------------------------------------------ JSON bodies (C17)

\* C17: every top-level key of the JSON object a request carries is observed
\* as a parameter with location `body`, and when the request is sent its value
\* is in the JSON body of the upstream request under the canonical name.
C17_BodyParameters ==
    \A h \in Handled :
        LET r == handlers[h]
            observed == _request_to_params(r.request)
        IN  (Translating(h) /\ r.request.json # <<>>) =>
                /\ \A i \in 1..Len(r.request.json) :
                      \E j \in 1..Len(observed) :
                          /\ observed[j].k = Parameter(r.request.path, r.request.method,
                                                       "body", r.request.json[i].k)
                          /\ observed[j].v = r.request.json[i].v
                /\ (Sending(h) /\ r.request.tamper = "none") =>
                      AsSet(r.upstream.json) = AsSet(Canonical(r.request).json)

\* ------------------------------------------------------ error wrapping (C18)

\* An exception was raised while the admitted request of h was handled: in
\* get_mixer, on the way to the upstream request, in session.send, in
\* response.json() or in a result processor.
Raised(h) ==
    LET r == handlers[h]
    IN  \/ r.mixer = NotCached
        \/ Outcome(r.mixer, _request_to_params(r.request), r.request.user_pk).kind
               = "error"
        \/ Sending(h) /\ r.answer = NoAnswer
        \/ r.answer # NoAnswer /\ r.answer.body = NotJson
        \/ /\ r.answer # NoAnswer /\ r.answer.body # NotJson
           /\ personal_filter_result_processor(r.answer.body, r.mixer.meta).error # None

\* {result: {error: <message>, help: <hint>}}
IsWrappedError(data) ==
    /\ data.t = "dict" /\ Len(data.v) = 1 /\ data.v[1].k = "result"
    /\ LET e == data.v[1].v
       IN  /\ e.t = "dict" /\ Len(e.v) = 2
           /\ e.v[1].k = "error" /\ e.v[1].v.t = "str"
           /\ e.v[2].k = "help" /\ e.v[2].v.t = "str"

\* C18: a request that was admitted and whose handling raised an exception is
\* answered with status 400 and {result: {error, help}}, and a request whose
\* handling raised none is not.
C18_ErrorWrapping ==
    \A h \in Handled :
        (handlers[h].pc = "done" /\ handlers[h].admission.verdict = "admitted") =>
            IF Raised(h)
            THEN /\ handlers[h].response.status = 400
                 /\ IsWrappedError(handlers[h].response.data)
            ELSE ~IsWrappedError(handlers[h].response.data)

\* An exception of each kind has been wrapped: a parameter nobody declared, a
\* wrong token, a failed send, a body that is not JSON.
C18_Witness ==
    \E h \in Handled :
        /\ handlers[h].pc = "done" /\ handlers[h].admission.verdict = "admitted"
        /\ Raised(h)
        /\ Sending(h)
        /\ handlers[h].answer # NoAnswer
        /\ handlers[h].answer.body = NotJson
        /\ IsWrappedError(handlers[h].response.data)

\* ------------------------------------------------ parameter derivation (C19)

\* What an operation contributes: its declared parameters in document order,
\* and one wildcard if it declares none.
Contribution(path, method, description) ==
    IF ~description.has_parameters \/ description.parameters = <<>>
    THEN <<Parameter(path, method, None, None)>>
    ELSE [i \in 1..Len(description.parameters) |->
             Parameter(path, method, description.parameters[i].in_,
                       description.parameters[i].name)]

\* The operations of a document as <<path, method>>.
Operations(doc) ==
    {<<doc.paths[p].k, doc.paths[p].v[m].k>> :
        <<p, m>> \in {t \in (1..Len(doc.paths)) \X (1..2) :
                         t[2] <= Len(doc.paths[t[1]].v)}}

\* C19: the list as_parameters makes of a document is, operation after
\* operation, the declared parameters of the operation or a single wildcard
\* when it has none (no `parameters` field, or an empty one), so that every
\* operation of the document occurs in the list.
C19_ParameterDerivation ==
    \A b \in Builders : Constructed(b) =>
        LET list == mixers[b].original_parameters
        IN  /\ list = Flatten([p \in 1..Len(swagger.paths) |->
                         Flatten([m \in 1..Len(swagger.paths[p].v) |->
                             Contribution(swagger.paths[p].k,
                                          swagger.paths[p].v[m].k,
                                          swagger.paths[p].v[m].v)])])
            /\ \A op \in Operations(swagger) :
                  \E i \in 1..Len(list) :
                      list[i].path = op[1] /\ list[i].method = op[2]

\* ------------------------------------------- single target operation (C20)

\* C20: the canonical parameters the loop of proxy has restored from the
\* observed parameters of one request all belong to one operation, the one
\* the request was formed for, so that the assertion of _params_to_request
\* holds.
C20_SingleTarget ==
    \A h \in Handled :
        Translating(h) =>
            LET r == handlers[h]
                restored == RestoreParameters(r.mixer, _request_to_params(r.request), 1,
                                [parameters |-> <<>>, error |-> None])
            IN  restored.error = None =>
                    /\ Cardinality({<<restored.parameters[i].k.path,
                                      restored.parameters[i].k.method>> :
                                        i \in 1..Len(restored.parameters)}) <= 1
                    /\ r.response # ErrorResponse("Inconsistent parameters")

\* ------------------------------------- the frame of permute_locations (C21)

\* C21: permute_locations changes only parameters of get operations and only
\* by swapping query and header: the parameters of operations with another
\* method, and the parameters declared in path, body or formData, have the
\* location and the name they had, and a parameter declared in query or header
\* is in query or header afterwards.
C21_LocationsFrame ==
    \A b \in Builders : Located(b) =>
        LET before == Declared(BeforeLocations(b))
            after == Declared(mixers[b].permuted_swagger)
        IN  \A x \in before :
                /\ x.method # "get" => x \in after
                /\ x.in_ \in {"path", "body", "formData"} => x \in after
                /\ x.in_ \in {"query", "header"} =>
                       LocationIn(after, x) \in {"query", "header"}

\* ------------------------------------------- writes of the abuse log (C22)

\* In this step the dispatch of handler h has been answered with 401.
Answered401(h) ==
    /\ handlers[h].pc = "waiting"
    /\ handlers'[h].pc = "done"
    /\ handlers'[h].answer.status = 401

\* C22: in every step in which the dispatch of a handler is answered with
\* 401, exactly one record (user of the request, current time) is added to
\* the log and every other record stays; in every other step (a request that
\* fails locally or at admission, any other answer, no answer, a refused
\* GET /users, time passing) the log stays as it is.
C22_AbuseLogWrites ==
    [][ /\ \A h \in Handlers :
               Answered401(h) =>
                   failures' = failures (+) SetToBag({[user |-> handlers[h].request.user_pk,
                                                       datetime |-> now]})
        /\ (~ \E h \in Handlers : Answered401(h)) => failures' = failures ]_vars

\* A second 401 for the same user at the same time, with a body that is not
\* JSON: the log holds two records of the user and the time, although the
\* request itself ends in 400.
C22_Witness ==
    \E h \in Handlers :
        /\ handlers[h].pc = "done"
        /\ handlers[h].answer = [status |-> 401, body |-> NotJson]
        /\ now = 24
        /\ CopiesIn([user |-> handlers[h].request.user_pk, datetime |-> now],
                    failures) = 2
        /\ BagCardinality(failures) = 2

\* ------------------------------------------------- admission first (C23)

Rejections == {"PermissionDenied", "SuspiciousOperation"}

\* In this step handler h looks its mixer up, constructs it (paging GET
\* /users), sends the proxied request, or is answered.
Works(h) ==
    \/ handlers[h].pc = "admitted" /\ handlers'[h].pc # "admitted"
    \/ handlers'[h].mixer # handlers[h].mixer /\ handlers'[h].mixer # NotCached
    \/ handlers'[h].users_calls > handlers[h].users_calls
    \/ handlers'[h].pc = "waiting" /\ handlers[h].pc # "waiting"
    \/ handlers'[h].answer # handlers[h].answer /\ handlers'[h].answer # NoAnswer

\* C23: a handler works (mixer look-up or construction, GET /users, the
\* proxied call) only for a request whose admission check has passed; a
\* request rejected at admission ends there, with no mixer, no upstream call
\* and no answer, and its steps leave the cache and the abuse log as they are.
C23_AdmissionFirst ==
    [][ \A h \in Handlers :
            /\ Works(h) => handlers[h].admission.verdict = "admitted"
            /\ handlers'[h].admission.verdict \in Rejections =>
                   /\ handlers'[h].pc = "done"
                   /\ handlers'[h].mixer = NotCached
                   /\ handlers'[h].users_calls = 0
                   /\ handlers'[h].upstream = NoRequest
                   /\ handlers'[h].answer = NoAnswer
            /\ (handlers[h].admission.verdict \in Rejections
                    /\ handlers'[h] # handlers[h]) =>
                   /\ cache' = cache
                   /\ failures' = failures ]_vars

\* A request rejected for its user has ended without a mixer or an upstream
\* call, while the mixer of the user is cached from the requests that were
\* answered 401 and the other handler waits for upstream.
C23_Witness ==
    \E h, g \in Handlers :
        /\ handlers[h].pc = "done"
        /\ handlers[h].admission.verdict = "SuspiciousOperation"
        /\ handlers[h].response = ErrorResponse("SuspiciousOperation")
        /\ handlers[h].users_calls = 0 /\ handlers[h].upstream = NoRequest
        /\ cache[handlers[h].request.user_pk] # NotCached
        /\ UserBlocked(failures, handlers[h].request.user_pk, now)
        /\ ~EveryoneBlocked(failures, now)
        /\ handlers[g].pc = "waiting"

\* ------------------------------------ thresholds under concurrency (C24)

\* C24: with handlers in parallel, at most HUBSTAFF_MAX_FAILED_BEFORE_BLOCK + 1
\* records of one user and at most 10 records overall lie in the window of 24
\* hours, and no handler sends its request upstream while its user, or every
\* user, is blocked.
C24_ThresholdBound ==
    [][ /\ \A user \in UserPks :
               BagCardinality(Recent(FailedAttempts(failures', user), now'))
                   <= HUBSTAFF_MAX_FAILED_BEFORE_BLOCK + 1
        /\ BagCardinality(Recent(failures', now')) <= 10
        /\ \A h \in Handlers :
               (handlers[h].pc # "waiting" /\ handlers'[h].pc = "waiting") =>
                   /\ ~UserBlocked(failures, handlers[h].request.user_pk, now)
                   /\ ~EveryoneBlocked(failures, now) ]_vars

\* ---------------------------------------------- lockout is temporary (C25)

\* Far enough from the end of the clock for the window to pass.
InTime == now + 24 + Step <= MaxTime

\* C25: while time advances every block lifts: whenever a user is rejected,
\* by the check on every user or by the check on that user, a time follows
\* at which both checks admit the user again.
C25_LockoutIsTemporary ==
    \A user \in UserPks :
        (InTime /\ (EveryoneBlocked(failures, now) \/ UserBlocked(failures, user, now)))
            ~> (~EveryoneBlocked(failures, now) /\ ~UserBlocked(failures, user, now))

\* A user who was blocked at an earlier time, by more records than the limit
\* within the 24 hours before it, has just been admitted again, the records
\* still being in the log.
C25_Witness ==
    \E h \in Handlers :
        LET user == handlers[h].request.user_pk
            mine == FailedAttempts(failures, user)
            Within(t) == {r \in DOMAIN mine : r.datetime <= t /\ r.datetime >= t - 24}
        IN  /\ handlers[h].pc = "admitted"
            /\ handlers[h].admission = [at |-> now, verdict |-> "admitted"]
            /\ ~UserBlocked(failures, user, now)
            /\ \E t \in 0..MaxTime :
                   /\ t < now
                   /\ BagCardinality([r \in Within(t) |-> mine[r]])
                          > HUBSTAFF_MAX_FAILED_BEFORE_BLOCK

====
